---- MODULE Spec2Model ----
(***************************************************************************)
(* AnyVideo Downloader: the job registry (download_progress), the history  *)
(* list (download_history), the submission handler (start_download), the   *)
(* background task (download_video with progress_hook and DownloadLogger)  *)
(* and the input validators of security.py.                                *)
(*                                                                         *)
(* A Python str is a sequence of one-character strings, so that lower(),   *)
(* strip(), `in`, startswith and the regular expressions are computed and  *)
(* not assumed.  Dictionary keys and the literal texts the code only       *)
(* passes along (status values, response texts) are TLA+ strings.          *)
(***************************************************************************)
EXTENDS Integers, Sequences, FiniteSets, TLC

(***************************************************************************)
(* Bounds of the model.                                                    *)
(***************************************************************************)
\* HTTP requests the server handles (each accepted submission starts one thread)
MaxRequests == 2
\* readings of the millisecond clock: 0..MaxClock
MaxClock == 1
\* callbacks (progress_hook, logger.error) the collaborator makes, over all tasks
MaxEvents == 2

(***************************************************************************)
(* Python str operations.                                                  *)
(***************************************************************************)
UpperLetters == <<"A","B","C","D","E","F","G","H","I","J","K","L","M","N","O","P","Q","R","S","T","U","V","W","X","Y","Z">>
LowerLetters == <<"a","b","c","d","e","f","g","h","i","j","k","l","m","n","o","p","q","r","s","t","u","v","w","x","y","z">>
DigitChars == <<"0","1","2","3","4","5","6","7","8","9">>

Range(s) == {s[i] : i \in 1..Len(s)}

\* str.isspace() on the ASCII range; also the class \s of re
Whitespace == {" ", "\t", "\n", "\r", "\f"}

\* the class \w of re, on the ASCII range
WordChars == Range(UpperLetters) \cup Range(LowerLetters) \cup Range(DigitChars) \cup {"_"}

LowerChar(c) ==
    IF c \in Range(UpperLetters)
    THEN LowerLetters[CHOOSE i \in 1..Len(UpperLetters) : UpperLetters[i] = c]
    ELSE c

\* str.lower(): every character lower-cased
Lower(s) == <<>> \o [i \in 1..Len(s) |-> LowerChar(s[i])]

\* str.strip(): leading and trailing whitespace removed
Strip(s) ==
    LET keep == {i \in 1..Len(s) : s[i] \notin Whitespace}
    IN  IF keep = {} THEN <<>>
        ELSE LET lo == CHOOSE i \in keep : \A j \in keep : i <= j
                 hi == CHOOSE i \in keep : \A j \in keep : j <= i
             IN  SubSeq(s, lo, hi)

\* s[i:i+len(sub)] == sub
MatchAt(s, i, sub) ==
    /\ i >= 1
    /\ i + Len(sub) - 1 <= Len(s)
    /\ \A k \in 1..Len(sub) : s[i + k - 1] = sub[k]

\* sub in s
Contains(s, sub) == \E i \in 1..(Len(s) + 1) : MatchAt(s, i, sub)

\* s.startswith(sub)
StartsWith(s, sub) == MatchAt(s, 1, sub)

\* every character of s[i..j] lies in set (true of an empty range)
AllIn(s, i, j, set) == \A k \in i..j : s[k] \in set

\* s.find(c): the first index of a character of set at or after i, 0 when none
FindFrom(s, i, set) ==
    LET hits == {k \in i..Len(s) : s[k] \in set}
    IN  IF hits = {} THEN 0 ELSE CHOOSE k \in hits : \A m \in hits : k <= m

\* the last index of character c in s, 0 when none (str.rpartition)
FindLast(s, c) ==
    LET hits == {k \in 1..Len(s) : s[k] = c}
    IN  IF hits = {} THEN 0 ELSE CHOOSE k \in hits : \A m \in hits : m <= k

RECURSIVE DigitsOf(_)
\* str(n) of a natural number
DigitsOf(n) ==
    IF n < 10 THEN <<DigitChars[n + 1]>>
    ELSE Append(DigitsOf(n \div 10), DigitChars[(n % 10) + 1])

(***************************************************************************)
(* re.search of the blocked patterns (security.py, BLOCKED_PATTERNS).      *)
(* "." does not match a newline; \s and \w are the ASCII classes above.    *)
(***************************************************************************)
NotNewline(s, i, j) == \A k \in i..j : s[k] # "\n"

\* a\s*b : a, any whitespace, b
LitWsLit(s, a, b) ==
    \E i \in 1..Len(s) :
        /\ MatchAt(s, i, a)
        /\ \E k \in (i + Len(a))..(Len(s) + 1) :
               /\ MatchAt(s, k, b)
               /\ AllIn(s, i + Len(a), k - 1, Whitespace)

\* a\s+b : a, at least one whitespace, b
LitWs1Lit(s, a, b) ==
    \E i \in 1..Len(s) :
        /\ MatchAt(s, i, a)
        /\ \E k \in (i + Len(a) + 1)..(Len(s) + 1) :
               /\ MatchAt(s, k, b)
               /\ AllIn(s, i + Len(a), k - 1, Whitespace)

\* a.*b : a, any characters but a newline, b
LitAnyLit(s, a, b) ==
    \E i \in 1..Len(s) :
        /\ MatchAt(s, i, a)
        /\ \E k \in (i + Len(a))..(Len(s) + 1) :
               /\ MatchAt(s, k, b)
               /\ NotNewline(s, i + Len(a), k - 1)

\* <script[^>]*>.*?</script>
PatScript(s) ==
    \E i \in 1..Len(s) :
        /\ MatchAt(s, i, <<"<","s","c","r","i","p","t">>)
        /\ LET gt == FindFrom(s, i + 7, {">"})
           IN  /\ gt # 0
               /\ \E k \in (gt + 1)..Len(s) :
                      /\ NotNewline(s, gt + 1, k - 1)
                      /\ MatchAt(s, k, <<"<","/","s","c","r","i","p","t",">">>)

\* on\w+\s*=
PatOnHandler(s) ==
    \E i \in 1..Len(s) :
        /\ MatchAt(s, i, <<"o","n">>)
        /\ \E k \in (i + 3)..Len(s) :
               /\ s[k] = "="
               /\ \E j \in (i + 2)..(k - 1) :
                      /\ AllIn(s, i + 2, j, WordChars)
                      /\ AllIn(s, j + 1, k - 1, Whitespace)

\* update\s+.*set
PatUpdateSet(s) ==
    \E i \in 1..Len(s) :
        /\ MatchAt(s, i, <<"u","p","d","a","t","e">>)
        /\ \E k \in (i + 7)..(Len(s) + 1) :
               /\ MatchAt(s, k, <<"s","e","t">>)
               /\ \E j \in (i + 7)..k :
                      /\ AllIn(s, i + 6, j - 1, Whitespace)
                      /\ NotNewline(s, j, k - 1)

\* --\s*$
PatSqlDashComment(s) ==
    \E i \in 1..Len(s) :
        /\ MatchAt(s, i, <<"-","-">>)
        /\ AllIn(s, i + 2, Len(s), Whitespace)

\* any(re.search(pattern, url_lower, re.IGNORECASE) for pattern in BLOCKED_PATTERNS)
MatchesBlockedPattern(s) ==
    \/ PatScript(s)
    \/ Contains(s, <<"j","a","v","a","s","c","r","i","p","t",":">>)
    \/ PatOnHandler(s)
    \/ LitWsLit(s, <<"e","v","a","l">>, <<"(">>)
    \/ LitWsLit(s, <<"e","x","p","r","e","s","s","i","o","n">>, <<"(">>)
    \/ LitWs1Lit(s, <<"i","m","p","o","r","t">>, <<>>)
    \/ LitWsLit(s, <<"e","x","e","c">>, <<"(">>)
    \/ Contains(s, <<"<","i","f","r","a","m","e">>)
    \/ Contains(s, <<"<","e","m","b","e","d">>)
    \/ Contains(s, <<"<","o","b","j","e","c","t">>)
    \/ Contains(s, <<".",".","/",".",".">>)
    \/ Contains(s, <<".",".","\\",".",".">>)
    \/ LitWs1Lit(s, <<"u","n","i","o","n">>, <<"s","e","l","e","c","t">>)
    \/ LitWs1Lit(s, <<"d","r","o","p">>, <<"t","a","b","l","e">>)
    \/ LitWs1Lit(s, <<"i","n","s","e","r","t">>, <<"i","n","t","o">>)
    \/ LitWs1Lit(s, <<"d","e","l","e","t","e">>, <<"f","r","o","m">>)
    \/ PatUpdateSet(s)
    \/ PatSqlDashComment(s)
    \/ LitAnyLit(s, <<"/","*">>, <<"*","/">>)

(***************************************************************************)
(* urllib.parse.urlparse, as far as validate_url reads its result: the     *)
(* scheme and the hostname.                                                *)
(***************************************************************************)
SchemeChars == Range(UpperLetters) \cup Range(LowerLetters) \cup Range(DigitChars) \cup {"+", "-", "."}

IsUnsafeUrlChar(c) == c \in {"\t", "\r", "\n"}

IsSafeUrlChar(c) == ~IsUnsafeUrlChar(c)

\* urlsplit drops tabs and line breaks before it splits
UrlCleaned(url) == SelectSeq(url, IsSafeUrlChar)

\* the index of the ":" ending a well-formed scheme, 0 when the URL has no scheme
SchemeEnd(u) ==
    LET i == FindFrom(u, 1, {":"})
    IN  IF /\ i > 1
           /\ u[1] \in Range(UpperLetters) \cup Range(LowerLetters)
           /\ AllIn(u, 1, i - 1, SchemeChars)
        THEN i ELSE 0

UrlScheme(url) ==
    LET u == UrlCleaned(url)
    IN  IF SchemeEnd(u) = 0 THEN <<>> ELSE Lower(SubSeq(u, 1, SchemeEnd(u) - 1))

\* the network location: what follows "//" up to the first of "/", "?", "#"
UrlNetloc(url) ==
    LET u    == UrlCleaned(url)
        rest == SubSeq(u, SchemeEnd(u) + 1, Len(u))
    IN  IF ~StartsWith(rest, <<"/","/">>) THEN <<>>
        ELSE LET d == FindFrom(rest, 3, {"/", "?", "#"})
             IN  SubSeq(rest, 3, IF d = 0 THEN Len(rest) ELSE d - 1)

\* urlsplit raises ValueError on an unbalanced bracket in the network location
UrlParseFails(url) ==
    LET n == UrlNetloc(url)
    IN  ("[" \in Range(n)) # ("]" \in Range(n))

\* the hostname as written, its letter case kept
UrlHostnameCaseKept(url) ==
    LET n        == UrlNetloc(url)
        hostinfo == SubSeq(n, FindLast(n, "@") + 1, Len(n))
        colon    == FindFrom(hostinfo, 1, {":"})
    IN  SubSeq(hostinfo, 1, IF colon = 0 THEN Len(hostinfo) ELSE colon - 1)

\* ParseResult.hostname: after the last "@", up to the port; lower-cased; <<>> is None
UrlHostname(url) ==
    LET n        == UrlNetloc(url)
        hostinfo == SubSeq(n, FindLast(n, "@") + 1, Len(n))
        open     == FindFrom(hostinfo, 1, {"["})
    IN  IF open # 0
        THEN LET close == FindFrom(hostinfo, open + 1, {"]"})
             IN  Lower(SubSeq(hostinfo, open + 1,
                              IF close = 0 THEN Len(hostinfo) ELSE close - 1))
        ELSE LET colon == FindFrom(hostinfo, 1, {":"})
             IN  Lower(SubSeq(hostinfo, 1,
                              IF colon = 0 THEN Len(hostinfo) ELSE colon - 1))

(***************************************************************************)
(* SecurityValidator (security.py).                                        *)
(***************************************************************************)
MAX_URL_LENGTH == 2048

ALLOWED_SCHEMES == {<<"h","t","t","p">>, <<"h","t","t","p","s">>}

LocalHostnames == {<<"l","o","c","a","l","h","o","s","t">>, <<"1","2","7",".","0",".","0",".","1">>, <<"0",".","0",".","0",".","0">>, <<":",":","1">>}

\* the checks with the scheme looked at before the blocked patterns
validate_url_scheme_first(url) ==
    IF url = <<>> THEN <<FALSE, "URL is required">>
    ELSE IF Len(url) > MAX_URL_LENGTH THEN <<FALSE, "URL too long">>
    ELSE IF UrlScheme(url) \notin ALLOWED_SCHEMES
         THEN <<FALSE, "Only http, https URLs are allowed">>
    ELSE IF MatchesBlockedPattern(Lower(url))
         THEN <<FALSE, "URL contains suspicious content">>
    ELSE IF UrlParseFails(url) THEN <<FALSE, "Invalid URL format">>
    ELSE LET hostname == UrlHostname(url)
         IN  IF hostname = <<>> THEN <<TRUE, "None">>
             ELSE IF hostname \in LocalHostnames
                  THEN <<FALSE, "Local URLs are not allowed">>
             ELSE IF \/ StartsWith(hostname, <<"1","9","2",".","1","6","8",".">>)
                     \/ StartsWith(hostname, <<"1","0",".">>)
                     \/ StartsWith(hostname, <<"1","7","2",".">>)
                  THEN <<FALSE, "Private IP addresses are not allowed">>
             ELSE IF Contains(hostname, <<"1","6","9",".","2","5","4",".","1","6","9",".","2","5","4">>)
                  THEN <<FALSE, "Metadata endpoints are not allowed">>
             ELSE <<TRUE, "None">>

\* validate_url(url) -> (is_valid, error_message); the checks in the code's order
validate_url(url) ==
    IF url = <<>> THEN <<FALSE, "URL is required">>
    ELSE IF Len(url) > MAX_URL_LENGTH THEN <<FALSE, "URL too long">>
    ELSE IF MatchesBlockedPattern(Lower(url))
         THEN <<FALSE, "URL contains suspicious content">>
    ELSE IF UrlParseFails(url) THEN <<FALSE, "Invalid URL format">>
    ELSE IF UrlScheme(url) \notin ALLOWED_SCHEMES
         THEN <<FALSE, "Only http, https URLs are allowed">>
    ELSE LET hostname == UrlHostname(url)
         IN  IF hostname = <<>> THEN <<TRUE, "None">>
             ELSE IF hostname \in LocalHostnames
                  THEN <<FALSE, "Local URLs are not allowed">>
             ELSE IF \/ StartsWith(hostname, <<"1","9","2",".","1","6","8",".">>)
                     \/ StartsWith(hostname, <<"1","0",".">>)
                     \/ StartsWith(hostname, <<"1","7","2",".">>)
                  THEN <<FALSE, "Private IP addresses are not allowed">>
             ELSE IF Contains(hostname, <<"1","6","9",".","2","5","4",".","1","6","9",".","2","5","4">>)
                  THEN <<FALSE, "Metadata endpoints are not allowed">>
             ELSE <<TRUE, "None">>

(***************************************************************************)
(* A JSON value of a request body: a string, a number or null.             *)
(***************************************************************************)
JStr(s) == [t |-> "str", v |-> s]
JNum(n) == [t |-> "num", v |-> n]
JNull == [t |-> "null", v |-> 0]

\* Python truthiness: `not value`
Falsy(j) ==
    \/ j.t = "null"
    \/ j.t = "num" /\ j.v = 0
    \/ j.t = "str" /\ j.v = <<>>

\* str(value)
PyStr(j) == IF j.t = "str" THEN j.v ELSE IF j.t = "num" THEN DigitsOf(j.v) ELSE <<"N","o","n","e">>

allowed_qualities == {<<"b","e","s","t">>, <<"4","k">>, <<"1","0","8","0","p">>, <<"7","2","0","p">>, <<"4","8","0","p">>}

allowed_formats == {<<"v","i","d","e","o">>, <<"a","u","d","i","o">>}

\* the quality compared as written, surrounding whitespace kept
validate_quality_untrimmed(quality) ==
    IF Falsy(quality) THEN <<TRUE, <<"b","e","s","t">>>>
    ELSE LET q == Lower(PyStr(quality))
         IN  IF q \in allowed_qualities THEN <<TRUE, q>> ELSE <<FALSE, <<"b","e","s","t">>>>

\* validate_quality(quality) -> (is_valid, sanitized_quality)
validate_quality(quality) ==
    IF Falsy(quality) THEN <<TRUE, <<"b","e","s","t">>>>
    ELSE LET q == Strip(Lower(PyStr(quality)))
         IN  IF q \in allowed_qualities THEN <<TRUE, q>> ELSE <<FALSE, <<"b","e","s","t">>>>

\* validate_format(format_type) -> (is_valid, sanitized_format)
validate_format(format_type) ==
    IF Falsy(format_type) THEN <<TRUE, <<"v","i","d","e","o">>>>
    ELSE LET f == Strip(Lower(PyStr(format_type)))
         IN  IF f \in allowed_formats THEN <<TRUE, f>> ELSE <<FALSE, <<"v","i","d","e","o">>>>

(***************************************************************************)
(* The state.                                                              *)
(***************************************************************************)
VARIABLES
    now,                \* time.time() in whole milliseconds
    download_progress,  \* app.py: the job registry, download id -> record
    download_history,   \* app.py: the history list
    threads,            \* the background threads start_download has started
    events,             \* callbacks the collaborator has made so far
    requests,           \* HTTP requests handled so far
    response,           \* the last response a request handler returned, with its request
    call,               \* a function called on its own: its name, argument and result
    files,              \* the directory DOWNLOAD_FOLDER: file name -> its kind and mtime
    sweeper             \* the cleanup thread: schedule_cleanup and its Timer

vars == <<now, download_progress, download_history, threads, events, requests, response,
          call, files, sweeper>>

NoResponse == [path |-> "", code |-> 0]

\* dict.get(key, default)
Get(dict, key, default) == IF key \in DOMAIN dict THEN dict[key] ELSE default

\* dict[key] = value
Put(dict, key, value) ==
    [k \in DOMAIN dict \cup {key} |-> IF k = key THEN value ELSE dict[k]]

\* the empty dict
EmptyDict == [k \in {} |-> 0]

\* no function is being called on its own
NoCall == [fn |-> "", done |-> FALSE]

\* schedule_cleanup has not been invoked
SweeperOff ==
    [pc |-> "off", current_time |-> 0, todo |-> {}, filename |-> <<>>,
     file_age |-> EmptyDict, removed |-> {}, failed |-> {}, aborted |-> FALSE,
     timers |-> 0, due |-> 0]

(***************************************************************************)
(* What the environment supplies: request bodies, and what the collaborator*)
(* (yt-dlp) returns, raises and reports.                                   *)
(***************************************************************************)
UrlA == <<"h","t","t","p","s",":","/","/","a",".","i","o","/","v">>
UrlB == <<"h","t","t","p",":","/","/","b",".","i","o","/","w">>

Payloads ==
    { [url |-> JStr(UrlA)],
      [url |-> JStr(<<" ","h","t","t","p",":","/","/","b",".","i","o","/","w"," ">>), quality |-> JStr(<<" ","7","2","0","P">>), format |-> JStr(<<"A","u","d","i","o">>)],
      [url |-> JStr(UrlA), quality |-> JNull, format |-> JStr(<<>>)],
      [url |-> JStr(<<"h","t","t","p",":","/","/","L","o","c","a","l","H","o","s","t",":","8","0","/","x">>)],
      [url |-> JStr(<<"f","t","p",":","/","/","a",".","i","o","/","v">>)],
      [url |-> JStr(UrlA), quality |-> JStr(<<"8","k">>)],
      [url |-> JStr(UrlA), format |-> JStr(<<"g","i","f">>)],
      [url |-> JNum(7)],
      [url |-> JStr(<<" ">>)],
      [quality |-> JStr(<<"b","e","s","t">>)] }

\* messages of the exceptions the collaborator raises and of the errors it logs
Messages == {<<"b","o","o","m">>, <<"D","R","M">>}

\* the metadata dictionary extract_info returns
Infos == {[title |-> <<"C","l","i","p">>, duration |-> 9]}

ReportedPath == <<"/","s","r","v","/","d","l","/","a",".","m","p","4">>

\* the events the collaborator hands to progress_hook
HookEvents ==
    {[status |-> "downloading", filename |-> ReportedPath,
      total_bytes |-> tb, downloaded_bytes |-> db] : tb \in {0, 4}, db \in {1, 2}}
    \cup
    {[status |-> "downloading", filename |-> ReportedPath,
      total_bytes_estimate |-> te, downloaded_bytes |-> db] : te \in {1, 4}, db \in {1, 2}}
    \cup
    {[status |-> "downloading"],
     [status |-> "finished", filename |-> ReportedPath],
     [status |-> "error", error |-> <<"b","o","o","m">>]}

(***************************************************************************)
(* POST /api/download: start_download (app.py).  The whole handler is one  *)
(* step: the registry insert and thread.start() happen before it returns.  *)
(***************************************************************************)
\* f"download_{int(time.time() * 1000)}"
NewDownloadId(ms) == <<"d","o","w","n","l","o","a","d","_">> \o DigitsOf(ms)

\* the record start_download inserts
QueuedRecord(id, url, quality, format_type, at) ==
    [id |-> id, url |-> url, status |-> "queued", progress |-> 0,
     quality |-> quality, format |-> format_type, started_at |-> at]

\* the thread start_download starts: download_video(url, download_id, quality, format_type)
NewThread(id, url, quality, format_type) ==
    [id |-> id, url |-> url, quality |-> quality, format |-> format_type,
     pc |-> "start", pending |-> <<>>, err |-> <<>>]

\* start_download returns before the registry insert: nothing but the response changes
Reject(data, resp) ==
    /\ response' = Put(resp, "data", data)
    /\ UNCHANGED <<now, download_progress, download_history, threads, events, call, files, sweeper>>

\* the insert, thread.start() and the 200 response
Accept(data, url, quality, format_type) ==
    LET id == NewDownloadId(now)
    IN  /\ download_progress' = Put(download_progress, id,
                                    QueuedRecord(id, url, quality, format_type, now))
        /\ threads' = Append(threads, NewThread(id, url, quality, format_type))
        /\ response' = [path |-> "/api/download", data |-> data, code |-> 200,
                        success |-> TRUE, download_id |-> id, message |-> "Download started"]
        /\ UNCHANGED <<now, download_history, events, call, files, sweeper>>

\* start_download with the quality gate coercing to the default instead of rejecting
ValidatedQualityCoerced(data) ==
    LET rawUrl == Get(data, "url", JStr(<<>>))
    IN  IF "url" \notin DOMAIN data \/ Falsy(data.url)
        THEN [ok |-> FALSE,
              resp |-> [path |-> "/api/download", code |-> 400,
                        error |-> "Missing required fields: url"]]
        ELSE IF rawUrl.t # "str"
        THEN [ok |-> FALSE,
              resp |-> [path |-> "/api/download", code |-> 500, error |-> "AttributeError"]]
        ELSE
        LET url == Strip(rawUrl.v)
            okUrl == validate_url(url)
            okQuality == validate_quality(Get(data, "quality", JStr(<<"b","e","s","t">>)))
            okFormat == validate_format(Get(data, "format", JStr(<<"v","i","d","e","o">>)))
        IN  IF ~okUrl[1]
            THEN [ok |-> FALSE,
                  resp |-> [path |-> "/api/download", code |-> 400, error |-> "Invalid URL",
                            suggestion |-> okUrl[2]]]
            ELSE IF ~okFormat[1]
            THEN [ok |-> FALSE,
                  resp |-> [path |-> "/api/download", code |-> 400,
                            error |-> "Invalid format parameter"]]
            ELSE [ok |-> TRUE, url |-> url, quality |-> okQuality[2], format |-> okFormat[2]]

\* validate_json_request(required_fields=['url']): the field is absent or falsy
MissingUrl(data) == "url" \notin DOMAIN data \/ Falsy(data.url)

\* what start_download decides for the request body `data`, in the code's order:
\* the response of an early return, or the validated values of an accepted job
Validated(data) ==
    LET rawUrl == Get(data, "url", JStr(<<>>))
    IN  IF MissingUrl(data)
        THEN [ok |-> FALSE,
              resp |-> [path |-> "/api/download", code |-> 400,
                        error |-> "Missing required fields: url"]]
        ELSE IF rawUrl.t # "str"
        \* .strip() of a value that is no str: AttributeError, the 500 branch
        THEN [ok |-> FALSE,
              resp |-> [path |-> "/api/download", code |-> 500, error |-> "AttributeError"]]
        ELSE
        LET url == Strip(rawUrl.v)
            okUrl == validate_url(url)
            okQuality == validate_quality(Get(data, "quality", JStr(<<"b","e","s","t">>)))
            okFormat == validate_format(Get(data, "format", JStr(<<"v","i","d","e","o">>)))
        IN  IF ~okUrl[1]
            THEN [ok |-> FALSE,
                  resp |-> [path |-> "/api/download", code |-> 400, error |-> "Invalid URL",
                            suggestion |-> okUrl[2]]]
            ELSE IF ~okQuality[1]
            THEN [ok |-> FALSE,
                  resp |-> [path |-> "/api/download", code |-> 400,
                            error |-> "Invalid quality parameter"]]
            ELSE IF ~okFormat[1]
            THEN [ok |-> FALSE,
                  resp |-> [path |-> "/api/download", code |-> 400,
                            error |-> "Invalid format parameter"]]
            ELSE [ok |-> TRUE, url |-> url, quality |-> okQuality[2], format |-> okFormat[2]]

\* the request bodies with what start_download decides for each (computed once)
Submissions == {<<data, Validated(data)>> : data \in Payloads}

\* POST /api/download with body sub[1]
StartDownload(sub) ==
    /\ requests < MaxRequests
    /\ requests' = requests + 1
    /\ IF sub[2].ok
       THEN Accept(sub[1], sub[2].url, sub[2].quality, sub[2].format)
       ELSE Reject(sub[1], sub[2].resp)

\* the clock advances
ClockTick ==
    /\ now < MaxClock
    /\ now' = now + 1
    /\ UNCHANGED <<download_progress, download_history, threads, events, requests, response, call, files, sweeper>>

(***************************************************************************)
(* The background task: download_video, progress_hook, DownloadLogger      *)
(* (app.py).  Every `download_progress[download_id][key] = value` is one   *)
(* step of the thread: the code takes no lock, so the request threads and  *)
(* the other tasks run between any two of them.  A block of consecutive    *)
(* assignments does its first one at once and leaves the others pending.   *)
(***************************************************************************)
Idle(t) == threads[t].pending = <<>>

JobOf(t) == download_progress[threads[t].id]

\* the assignment made in every record of the registry
AssignEverywhere(id, write) ==
    [k \in DOMAIN download_progress |->
        Put(download_progress[k], write[1], IF write[1] = "completed_at" THEN now ELSE write[2])]

\* download_progress[id][key] = value; datetime.now() is read when its statement runs
Assign(id, write) ==
    [download_progress EXCEPT
        ![id] = Put(@, write[1], IF write[1] = "completed_at" THEN now ELSE write[2])]

\* thread t starts a block of assignments, then is at pc with exception message err
RunBlock(t, writes, pc, err) ==
    /\ download_progress' = Assign(threads[t].id, Head(writes))
    /\ threads' = [threads EXCEPT ![t].pending = Tail(writes), ![t].pc = pc, ![t].err = err]

\* the next pending assignment of thread t
Store(t) ==
    /\ ~Idle(t)
    /\ download_progress' = Assign(threads[t].id, Head(threads[t].pending))
    /\ threads' = [threads EXCEPT ![t].pending = Tail(@)]
    /\ UNCHANGED <<now, download_history, events, requests, response, call, files, sweeper>>

\* the path stored as it was reported
WholePath(path) == path

\* os.path.basename
Basename(path) == SubSeq(path, FindLast(path, "/") + 1, Len(path))

\* (downloaded / total) * 100; the byte counts of HookEvents divide exactly
Percent(downloaded, total) == (downloaded * 100) \div total

\* the assignments progress_hook(d, download_id) makes, in order, before it returns or raises
HookWrites(d) ==
    IF d.status = "downloading" THEN
        <<<<"status", "downloading">>,
          <<"filename", Basename(Get(d, "filename", <<"U","n","k","n","o","w","n">>))>>>>
        \o
        (IF "total_bytes" \in DOMAIN d THEN
            IF d.total_bytes = 0 THEN <<>>
            ELSE <<<<"progress", Percent(Get(d, "downloaded_bytes", 0), d.total_bytes)>>,
                   <<"downloaded", Get(d, "downloaded_bytes", 0)>>,
                   <<"total", d.total_bytes>>,
                   <<"speed", Get(d, "speed", 0)>>,
                   <<"eta", Get(d, "eta", 0)>>>>
         ELSE IF "total_bytes_estimate" \in DOMAIN d THEN
            IF d.total_bytes_estimate = 0 THEN <<>>
            ELSE <<<<"progress", Percent(Get(d, "downloaded_bytes", 0), d.total_bytes_estimate)>>,
                   <<"downloaded", Get(d, "downloaded_bytes", 0)>>,
                   <<"total", d.total_bytes_estimate>>,
                   <<"speed", Get(d, "speed", 0)>>,
                   <<"eta", Get(d, "eta", 0)>>>>
         ELSE <<>>)
    ELSE IF d.status = "finished" THEN
        <<<<"status", "processing">>,
          <<"progress", 100>>,
          <<"filename", Basename(Get(d, "filename", <<"U","n","k","n","o","w","n">>))>>>>
    ELSE IF d.status = "error" THEN
        <<<<"status", "error">>,
          <<"error", Get(d, "error", <<"U","n","k","n","o","w","n"," ","e","r","r","o","r">>)>>>>
    ELSE <<>>

\* downloaded / total raises ZeroDivisionError
HookRaises(d) ==
    /\ d.status = "downloading"
    /\ \/ "total_bytes" \in DOMAIN d /\ d.total_bytes = 0
       \/ /\ "total_bytes" \notin DOMAIN d
          /\ "total_bytes_estimate" \in DOMAIN d
          /\ d.total_bytes_estimate = 0

\* DownloadLogger.error(msg)
LoggerWrites(msg) == <<<<"status", "error">>, <<"error", msg>>>>

\* the classification with the 404 rule tried before the unsupported-site rule
ClassifyErrorNotFoundEarlier(error_msg) ==
    IF Contains(error_msg, <<"D","R","M">>) \/ Contains(Lower(error_msg), <<"d","r","m"," ","p","r","o","t","e","c","t","i","o","n">>)
    THEN <<"D","R","M","-","p","r","o","t","e","c","t","e","d"," ","c","o","n","t","e","n","t"," ","c","a","n","n","o","t"," ","b","e"," ","d","o","w","n","l","o","a","d","e","d","."," ","U","s","e"," ","o","f","f","i","c","i","a","l"," ","a","p","p"," ","(","N","e","t","f","l","i","x",","," ","D","i","s","n","e","y","+",","," ","e","t","c",".",")">>
    ELSE IF \/ Contains(Lower(error_msg), <<"n","e","e","d"," ","t","o"," ","l","o","g"," ","i","n">>)
            \/ Contains(Lower(error_msg), <<"l","o","g","i","n"," ","r","e","q","u","i","r","e","d">>)
            \/ Contains(Lower(error_msg), <<"c","o","o","k","i","e","s">>)
            \/ Contains(Lower(error_msg), <<"n","s","f","w">>)
    THEN <<"L","o","g","i","n"," ","r","e","q","u","i","r","e","d","."," ","E","x","p","o","r","t"," ","c","o","o","k","i","e","s"," ","f","r","o","m"," ","b","r","o","w","s","e","r","."," ","S","e","e"," ","C","O","O","K","I","E","_","G","U","I","D","E",".","m","d">>
    ELSE IF Contains(error_msg, <<"H","T","T","P"," ","E","r","r","o","r"," ","4","0","4">>)
    THEN <<"V","i","d","e","o"," ","n","o","t"," ","f","o","u","n","d"," ","(","4","0","4",")","."," ","V","i","d","e","o"," ","m","a","y"," ","b","e"," ","d","e","l","e","t","e","d"," ","o","r"," ","U","R","L"," ","i","n","c","o","r","r","e","c","t",".">>
    ELSE IF Contains(error_msg, <<"U","n","s","u","p","p","o","r","t","e","d"," ","U","R","L">>) \/ Contains(error_msg, <<"N","o"," ","v","i","d","e","o"," ","f","o","r","m","a","t","s"," ","f","o","u","n","d">>)
    THEN <<"S","i","t","e"," ","n","o","t"," ","s","u","p","p","o","r","t","e","d"," ","o","r"," ","o","u","t","d","a","t","e","d","."," ","U","p","d","a","t","e"," ","y","t","-","d","l","p",":"," ","p","i","p"," ","i","n","s","t","a","l","l"," ","-","-","u","p","g","r","a","d","e"," ","y","t","-","d","l","p">>
    ELSE IF Contains(error_msg, <<"U","n","a","b","l","e"," ","t","o"," ","e","x","t","r","a","c","t">>) \/ Contains(error_msg, <<"F","a","i","l","e","d"," ","t","o"," ","p","a","r","s","e">>)
    THEN <<"E","x","t","r","a","c","t","i","o","n"," ","f","a","i","l","e","d","."," ","U","p","d","a","t","e"," ","y","t","-","d","l","p",":"," ","p","i","p"," ","i","n","s","t","a","l","l"," ","-","-","u","p","g","r","a","d","e"," ","y","t","-","d","l","p">>
    ELSE IF \/ Contains(error_msg, <<"C","l","o","u","d","f","l","a","r","e">>)
            \/ Contains(error_msg, <<"H","T","T","P"," ","E","r","r","o","r"," ","4","0","3">>)
            \/ Contains(error_msg, <<"i","m","p","e","r","s","o","n","a","t","e">>)
    THEN <<"C","l","o","u","d","f","l","a","r","e"," ","p","r","o","t","e","c","t","e","d","."," ","I","n","s","t","a","l","l",":"," ","p","i","p"," ","i","n","s","t","a","l","l"," ","c","u","r","l","-","c","f","f","i",","," ","t","h","e","n"," ","r","e","s","t","a","r","t">>
    ELSE error_msg

\* the failure classification of download_video's handler: error_msg -> the text stored
ClassifyError(error_msg) ==
    IF Contains(error_msg, <<"D","R","M">>) \/ Contains(Lower(error_msg), <<"d","r","m"," ","p","r","o","t","e","c","t","i","o","n">>)
    THEN <<"D","R","M","-","p","r","o","t","e","c","t","e","d"," ","c","o","n","t","e","n","t"," ","c","a","n","n","o","t"," ","b","e"," ","d","o","w","n","l","o","a","d","e","d","."," ","U","s","e"," ","o","f","f","i","c","i","a","l"," ","a","p","p"," ","(","N","e","t","f","l","i","x",","," ","D","i","s","n","e","y","+",","," ","e","t","c",".",")">>
    ELSE IF \/ Contains(Lower(error_msg), <<"n","e","e","d"," ","t","o"," ","l","o","g"," ","i","n">>)
            \/ Contains(Lower(error_msg), <<"l","o","g","i","n"," ","r","e","q","u","i","r","e","d">>)
            \/ Contains(Lower(error_msg), <<"c","o","o","k","i","e","s">>)
            \/ Contains(Lower(error_msg), <<"n","s","f","w">>)
    THEN <<"L","o","g","i","n"," ","r","e","q","u","i","r","e","d","."," ","E","x","p","o","r","t"," ","c","o","o","k","i","e","s"," ","f","r","o","m"," ","b","r","o","w","s","e","r","."," ","S","e","e"," ","C","O","O","K","I","E","_","G","U","I","D","E",".","m","d">>
    ELSE IF Contains(error_msg, <<"U","n","s","u","p","p","o","r","t","e","d"," ","U","R","L">>) \/ Contains(error_msg, <<"N","o"," ","v","i","d","e","o"," ","f","o","r","m","a","t","s"," ","f","o","u","n","d">>)
    THEN <<"S","i","t","e"," ","n","o","t"," ","s","u","p","p","o","r","t","e","d"," ","o","r"," ","o","u","t","d","a","t","e","d","."," ","U","p","d","a","t","e"," ","y","t","-","d","l","p",":"," ","p","i","p"," ","i","n","s","t","a","l","l"," ","-","-","u","p","g","r","a","d","e"," ","y","t","-","d","l","p">>
    ELSE IF Contains(error_msg, <<"H","T","T","P"," ","E","r","r","o","r"," ","4","0","4">>)
    THEN <<"V","i","d","e","o"," ","n","o","t"," ","f","o","u","n","d"," ","(","4","0","4",")","."," ","V","i","d","e","o"," ","m","a","y"," ","b","e"," ","d","e","l","e","t","e","d"," ","o","r"," ","U","R","L"," ","i","n","c","o","r","r","e","c","t",".">>
    ELSE IF Contains(error_msg, <<"U","n","a","b","l","e"," ","t","o"," ","e","x","t","r","a","c","t">>) \/ Contains(error_msg, <<"F","a","i","l","e","d"," ","t","o"," ","p","a","r","s","e">>)
    THEN <<"E","x","t","r","a","c","t","i","o","n"," ","f","a","i","l","e","d","."," ","U","p","d","a","t","e"," ","y","t","-","d","l","p",":"," ","p","i","p"," ","i","n","s","t","a","l","l"," ","-","-","u","p","g","r","a","d","e"," ","y","t","-","d","l","p">>
    ELSE IF \/ Contains(error_msg, <<"C","l","o","u","d","f","l","a","r","e">>)
            \/ Contains(error_msg, <<"H","T","T","P"," ","E","r","r","o","r"," ","4","0","3">>)
            \/ Contains(error_msg, <<"i","m","p","e","r","s","o","n","a","t","e">>)
    THEN <<"C","l","o","u","d","f","l","a","r","e"," ","p","r","o","t","e","c","t","e","d","."," ","I","n","s","t","a","l","l",":"," ","p","i","p"," ","i","n","s","t","a","l","l"," ","c","u","r","l","-","c","f","f","i",","," ","t","h","e","n"," ","r","e","s","t","a","r","t">>
    ELSE error_msg

\* str(e) of the exceptions that reach the handler
RaisedMessages == Messages \cup {<<"d","i","v","i","s","i","o","n"," ","b","y"," ","z","e","r","o">>, <<"'","t","i","t","l","e","'">>, <<"'","c","o","m","p","l","e","t","e","d","_","a","t","'">>}

\* the text the handler stores for each of them (computed once)
StoredError == [error_msg \in RaisedMessages |-> ClassifyError(error_msg)]

\* the handler storing the message and leaving the status as it is
HandlerWritesNoStatus(error_msg) == <<<<"error", StoredError[error_msg]>>>>

\* the assignments of `except Exception as e`
HandlerWrites(error_msg) == <<<<"status", "error">>, <<"error", StoredError[error_msg]>>>>

\* the assignments after the probe returned info
InfoWrites(info) ==
    <<<<"title", Get(info, "title", <<"U","n","k","n","o","w","n">>)>>,
      <<"thumbnail", Get(info, "thumbnail", <<>>)>>,
      <<"duration", Get(info, "duration", 0)>>,
      <<"uploader", Get(info, "uploader", <<"U","n","k","n","o","w","n">>)>>>>

\* the assignments after ydl.download returned; completed_at is read when it is stored
CompletedWrites ==
    <<<<"status", "completed">>, <<"progress", 100>>, <<"completed_at", 0>>>>

\* the entry download_video appends to the history
HistoryEntry(t) ==
    [id |-> threads[t].id, url |-> threads[t].url, title |-> JobOf(t).title,
     quality |-> threads[t].quality, format |-> threads[t].format,
     completed_at |-> JobOf(t).completed_at,
     filename |-> Get(JobOf(t), "filename", <<>>)]

\* the first statement of download_video
TaskStart(t) ==
    /\ threads[t].pc = "start"
    /\ RunBlock(t, <<<<"status", "starting">>>>, "probe", <<>>)
    /\ UNCHANGED <<now, download_history, events, requests, response, call, files, sweeper>>

\* ydl.extract_info(url, download=False) returns info
ProbeReturn(t, info) ==
    /\ threads[t].pc = "probe" /\ Idle(t)
    /\ RunBlock(t, InfoWrites(info), "download", <<>>)
    /\ UNCHANGED <<now, download_history, events, requests, response, call, files, sweeper>>

\* the collaborator raises, from the probe or from the download call
CollaboratorRaise(t, msg) ==
    /\ threads[t].pc \in {"probe", "download"} /\ Idle(t)
    /\ RunBlock(t, HandlerWrites(msg), "failed", <<>>)
    /\ UNCHANGED <<now, download_history, events, requests, response, call, files, sweeper>>

\* the collaborator reports an error to the logger it was given
LoggerError(t, msg) ==
    /\ threads[t].pc \in {"probe", "download"} /\ Idle(t)
    /\ events < MaxEvents
    /\ events' = events + 1
    /\ RunBlock(t, LoggerWrites(msg), threads[t].pc, <<>>)
    /\ UNCHANGED <<now, download_history, requests, response, call, files, sweeper>>

\* the collaborator calls progress_hook(d, download_id) during ydl.download
ProgressHook(t, d) ==
    /\ threads[t].pc = "download" /\ Idle(t)
    /\ events < MaxEvents
    /\ events' = events + 1
    /\ IF HookRaises(d)
       THEN RunBlock(t, HookWrites(d), "raised", <<"d","i","v","i","s","i","o","n"," ","b","y"," ","z","e","r","o">>)
       ELSE RunBlock(t, HookWrites(d), "download", <<>>)
    /\ UNCHANGED <<now, download_history, requests, response, call, files, sweeper>>

\* an exception raised inside the task reaches `except Exception as e`
Except(t) ==
    /\ threads[t].pc = "raised" /\ Idle(t)
    /\ RunBlock(t, HandlerWrites(threads[t].err), "failed", <<>>)
    /\ UNCHANGED <<now, download_history, events, requests, response, call, files, sweeper>>

\* ydl.download([url]) returns
DownloadReturn(t) ==
    /\ threads[t].pc = "download" /\ Idle(t)
    /\ RunBlock(t, CompletedWrites, "history", <<>>)
    /\ UNCHANGED <<now, download_history, events, requests, response, call, files, sweeper>>

\* download_history.append({...}); a key the record lacks raises KeyError
AppendHistory(t) ==
    /\ threads[t].pc = "history" /\ Idle(t)
    /\ IF "title" \notin DOMAIN JobOf(t)
       THEN /\ threads' = [threads EXCEPT ![t].pc = "raised", ![t].err = <<"'","t","i","t","l","e","'">>]
            /\ UNCHANGED download_history
       ELSE IF "completed_at" \notin DOMAIN JobOf(t)
       THEN /\ threads' = [threads EXCEPT ![t].pc = "raised", ![t].err = <<"'","c","o","m","p","l","e","t","e","d","_","a","t","'">>]
            /\ UNCHANGED download_history
       ELSE /\ download_history' = Append(download_history, HistoryEntry(t))
            /\ threads' = [threads EXCEPT ![t].pc = "done"]
    /\ UNCHANGED <<now, download_progress, events, requests, response, call, files, sweeper>>

\* one step of thread t
TaskStep(t) ==
    \/ Store(t)
    \/ TaskStart(t)
    \/ \E info \in Infos : ProbeReturn(t, info)
    \/ \E msg \in Messages : CollaboratorRaise(t, msg)
    \/ \E msg \in Messages : LoggerError(t, msg)
    \/ \E d \in HookEvents : ProgressHook(t, d)
    \/ Except(t)
    \/ DownloadReturn(t)
    \/ AppendHistory(t)

(***************************************************************************)
(* GET /api/progress/<download_id>: get_progress (app.py).                 *)
(***************************************************************************)
\* the one-character string standing for "\x00"
NUL == "NUL"

IsNotNul(c) == c # NUL

TagOpeners == Range(UpperLetters) \cup Range(LowerLetters) \cup {"/", "!", "?"}

RECURSIVE BleachFrom(_, _)
\* bleach.clean(text, tags=[], strip=True) from index i on: markup is dropped up to
\* its ">", and a "<", ">" or "&" that is text is escaped
BleachFrom(s, i) ==
    IF i > Len(s) THEN <<>>
    ELSE IF s[i] = "<" /\ i < Len(s) /\ s[i + 1] \in TagOpeners
    THEN LET gt == FindFrom(s, i + 1, {">"})
         IN  IF gt = 0 THEN <<>> ELSE BleachFrom(s, gt + 1)
    ELSE IF s[i] = "<" THEN <<"&","l","t",";">> \o BleachFrom(s, i + 1)
    ELSE IF s[i] = ">" THEN <<"&","g","t",";">> \o BleachFrom(s, i + 1)
    ELSE IF s[i] = "&" THEN <<"&","a","m","p",";">> \o BleachFrom(s, i + 1)
    ELSE <<s[i]>> \o BleachFrom(s, i + 1)

\* SecurityValidator.sanitize_string(text, max_length)
sanitize_string(text, max_length) ==
    IF text = <<>> THEN <<>>
    ELSE LET cut == SubSeq(text, 1, IF Len(text) < max_length THEN Len(text) ELSE max_length)
         IN  Strip(SelectSeq(BleachFrom(cut, 1), IsNotNul))

\* re.match(r'^download_\d+$', download_id); the end anchor also matches before a final line break
MatchesDownloadId(s) ==
    LET body == IF Len(s) > 0 /\ s[Len(s)] = "\n" THEN SubSeq(s, 1, Len(s) - 1) ELSE s
    IN  /\ StartsWith(body, <<"d","o","w","n","l","o","a","d","_">>)
        /\ Len(body) > 9
        /\ AllIn(body, 10, Len(body), Range(DigitChars))

ProgressIdLimit == 50

\* the ids clients ask for: the ids of jobs, a malformed one, and ones that take
\* the shape of a job id once sanitised (a path segment holds no "/")
PollIds ==
    {NewDownloadId(ms) : ms \in 0..MaxClock}
    \cup {<<"d","o","w","n","l","o","a","d","_","x">>, <<" ","d","o","w","n","l","o","a","d","_","0">>, <<"<","b",">","d","o","w","n","l","o","a","d","_","0">>}

\* the requested ids with what sanitize_string makes of each (computed once)
PollRequests == {<<requested, sanitize_string(requested, ProgressIdLimit)>> : requested \in PollIds}

\* a poll that marks the record it returns
GetProgressMarksRecord(req) ==
    LET download_id == req[2]
        found == MatchesDownloadId(download_id) /\ download_id \in DOMAIN download_progress
    IN  /\ requests < MaxRequests
        /\ requests' = requests + 1
        /\ response' =
              IF ~MatchesDownloadId(download_id)
              THEN [path |-> "/api/progress", requested |-> req[1],
                    code |-> 400, error |-> "Invalid download ID"]
              ELSE IF found
              THEN [path |-> "/api/progress", requested |-> req[1],
                    code |-> 200, body |-> download_progress[download_id]]
              ELSE [path |-> "/api/progress", requested |-> req[1],
                    code |-> 404, error |-> "Download not found"]
        /\ download_progress' =
              IF found
              THEN [download_progress EXCEPT ![download_id] = Put(@, "polled", TRUE)]
              ELSE download_progress
        /\ UNCHANGED <<now, download_history, threads, events, call, files, sweeper>>

\* GET /api/progress/<req[1]>
GetProgress(req) ==
    LET download_id == req[2]
    IN  /\ requests < MaxRequests
        /\ requests' = requests + 1
        /\ response' =
              IF ~MatchesDownloadId(download_id)
              THEN [path |-> "/api/progress", requested |-> req[1],
                    code |-> 400, error |-> "Invalid download ID"]
              ELSE IF download_id \in DOMAIN download_progress
              THEN [path |-> "/api/progress", requested |-> req[1],
                    code |-> 200, body |-> download_progress[download_id]]
              ELSE [path |-> "/api/progress", requested |-> req[1],
                    code |-> 404, error |-> "Download not found"]
        /\ UNCHANGED <<now, download_progress, download_history, threads, events, call, files, sweeper>>

(***************************************************************************)
(* The specifications.                                                     *)
(***************************************************************************)
Init ==
    /\ now = 0
    /\ download_progress = EmptyDict
    /\ download_history = <<>>
    /\ threads = <<>>
    /\ events = 0
    /\ requests = 0
    /\ response = NoResponse
    /\ call = NoCall
    /\ files = EmptyDict
    /\ sweeper = SweeperOff

TaskNext == \E t \in 1..Len(threads) : TaskStep(t)

Next ==
    \/ \E sub \in Submissions : StartDownload(sub)
    \/ \E req \in PollRequests : GetProgress(req)
    \/ ClockTick
    \/ TaskNext

\* the request handlers, the clock and the background tasks
Spec == Init /\ [][Next]_vars

(***************************************************************************)
(* The background tasks with every started thread scheduled fairly.  The   *)
(* collaborator's calls return or raise: its callbacks are bounded by      *)
(* MaxEvents.  The requests are submissions of one accepted body: the      *)
(* steps of a task do not branch on the url, quality or format.            *)
(***************************************************************************)
LiveSubmissions == {sub \in Submissions : sub[1] = [url |-> JStr(UrlA)]}

\* a step of the t-th thread, once it has been started
Task(t) == t \in DOMAIN threads /\ TaskStep(t)

LiveNext ==
    \/ \E sub \in LiveSubmissions : StartDownload(sub)
    \/ ClockTick
    \/ TaskNext

FairSpec == Init /\ [][LiveNext]_vars /\ \A t \in 1..MaxRequests : WF_vars(Task(t))


(***************************************************************************)
(* The claims.                                                             *)
(***************************************************************************)
Terminal == {"completed", "error"}

\* the threads running the job with this id
TasksOf(id) == {t \in DOMAIN threads : threads[t].id = id}

\* the job's record is written by one task only
Alone(id) == Cardinality(TasksOf(id)) = 1

\* a step of a background task: no request was handled and the clock stood still
IsTaskStep == requests' = requests /\ now' = now

\* C1: any two accepted submissions receive distinct job ids, so that no two
\* background tasks share an id and no submission overwrites a record.
\* (Refuted: two submissions within one clock reading get the same id.)
C1_DistinctJobIds ==
    \A s, t \in DOMAIN threads : s # t => threads[s].id # threads[t].id

\* C2: once a record's status is completed or error, no later step of its task
\* changes the status.  Stated for a record only one task writes, so that a
\* violation does not rest on the colliding ids of C1.
\* (Refuted: a callback after a logged or reported error, and the return of the
\* download call, overwrite the status error.)
C2_TerminalStatusIsFinal ==
    [][\A id \in DOMAIN download_progress :
          (IsTaskStep /\ Alone(id) /\ download_progress[id].status \in Terminal)
          => download_progress'[id].status = download_progress[id].status]_vars

LifecycleEdges ==
    {<<"queued", "starting">>, <<"starting", "downloading">>,
     <<"downloading", "processing">>, <<"processing", "completed">>}
    \cup {<<s, "error">> : s \in {"queued", "starting", "downloading", "processing"}}

\* C3: every change of a job's status is an edge of the lifecycle graph
\* (downloading -> downloading changes nothing).  Stated for a record only one
\* task writes.
\* (Refuted: starting -> completed, starting -> processing, processing -> downloading.)
C3_StatusFollowsLifecycle ==
    [][\A id \in DOMAIN download_progress :
          (IsTaskStep /\ Alone(id))
          => \/ download_progress'[id].status = download_progress[id].status
             \/ <<download_progress[id].status, download_progress'[id].status>>
                    \in LifecycleEdges]_vars

\* C4: a status poll never returns a record on which an event is only partly
\* applied: processing below 100, completed without completed_at or below 100,
\* error without an error field, or downloading with a progress that is not the
\* one of its byte counters.
\* (Refuted: the task's assignments are separate steps and the poll reads between them.)
C4_PollSeesWholeEvents ==
    (response.path = "/api/progress" /\ response.code = 200) =>
        LET b == response.body
        IN  /\ b.status = "processing" => b.progress = 100
            /\ b.status = "completed" => ("completed_at" \in DOMAIN b /\ b.progress = 100)
            /\ b.status = "error" => "error" \in DOMAIN b
            /\ (b.status = "downloading" /\ {"downloaded", "total"} \subseteq DOMAIN b)
               => b.progress = Percent(b.downloaded, b.total)

\* thread t makes the last assignment of the exception handler
HandlerEnds(t) ==
    /\ threads[t].pc = "failed"
    /\ Len(threads[t].pending) = 1
    /\ threads'[t].pending = <<>>

\* C5: a task in which the probe, the download call or the progress callback
\* raises ends in the handler with the job's status error and its error field set.
\* (Refuted through C1: a second task of the same id writes the status between
\* the handler's two assignments.)
C5_FailedTaskEndsInError ==
    [][\A t \in DOMAIN threads :
          HandlerEnds(t) =>
              /\ download_progress'[threads[t].id].status = "error"
              /\ "error" \in DOMAIN download_progress'[threads[t].id]]_vars

\* the history entries of one job id
EntriesOf(id) == {i \in DOMAIN download_history : download_history[i].id = id}

\* C6: the history holds at most one entry per job id.
\* (Refuted through C1: two tasks of one id each append an entry.)
C6_OneHistoryEntryPerJob ==
    \A id \in DOMAIN download_progress : Cardinality(EntriesOf(id)) <= 1

\* the job with this id is in the registry with a terminal status
Ended(id) == id \in DOMAIN download_progress /\ download_progress[id].status \in Terminal

\* C7: under fair scheduling of the threads, with collaborator calls that return
\* or raise, every accepted job reaches status completed or error.
C7_EveryJobTerminates ==
    \A ms \in 0..MaxClock :
        (NewDownloadId(ms) \in DOMAIN download_progress) ~> Ended(NewDownloadId(ms))

\* a job whose task ran to its end, the status being terminal
C7_Witness ==
    \E t \in DOMAIN threads :
        /\ threads[t].pc \in {"done", "failed"} /\ Idle(t)
        /\ JobOf(t).status \in Terminal

\* a request body for which validate_url, validate_quality or validate_format
\* reports invalid
FailsValidation(data) ==
    LET rawUrl == Get(data, "url", JStr(<<>>))
    IN  /\ rawUrl.t = "str"
        /\ \/ ~validate_url(Strip(rawUrl.v))[1]
           \/ ~validate_quality(Get(data, "quality", JStr(<<"b","e","s","t">>)))[1]
           \/ ~validate_format(Get(data, "format", JStr(<<"v","i","d","e","o">>)))[1]

InvalidPayloads == {data \in Payloads : FailsValidation(data)}

\* C8: a submission that fails validation is answered 400 and changes nothing
\* else: no record, no thread, no collaborator call, registry and history as before.
C8_RejectedSubmissionHasNoEffect ==
    [][(/\ requests' = requests + 1
        /\ response'.path = "/api/download"
        /\ response'.data \in InvalidPayloads)
       => /\ response'.code = 400
          /\ UNCHANGED <<download_progress, download_history, threads, events>>]_vars

\* an invalid submission was answered while a job was in the registry
C8_Witness ==
    /\ response.path = "/api/download"
    /\ response.data \in InvalidPayloads
    /\ response.code = 400
    /\ Len(threads) = 1

\* C9: the poll a client issues right after its accepted submission was answered
\* (no other request in between) yields the record with status queued and the
\* validated url, quality and format of the submission.
\* (Refuted: the thread is started before the submission is answered and has
\* already left queued.)
C9_PollAfterSubmitIsQueued ==
    [][(/\ response.path = "/api/download" /\ response.code = 200
        /\ requests' = requests + 1
        /\ response'.path = "/api/progress"
        /\ response'.requested = response.download_id)
       => /\ response'.code = 200
          /\ response'.body.status = "queued"
          /\ \E sub \in Submissions :
                /\ sub[1] = response.data
                /\ response'.body.url = sub[2].url
                /\ response'.body.quality = sub[2].quality
                /\ response'.body.format = sub[2].format]_vars

\* thread t stores the progress of a downloading event whose downloaded_bytes
\* exceed those of the downloading event stored before
StoresProgressOfLaterEvent(t) ==
    LET p == threads[t].pending
    IN  /\ Len(p) >= 2
        /\ p[1][1] = "progress" /\ p[2][1] = "downloaded"
        /\ threads'[t].pending = Tail(p)
        /\ JobOf(t).status = "downloading"
        /\ {"downloaded", "total"} \subseteq DOMAIN JobOf(t)
        /\ JobOf(t).progress = Percent(JobOf(t).downloaded, JobOf(t).total)
        /\ p[2][2] > JobOf(t).downloaded

\* C10: over downloading events with increasing downloaded_bytes the stored
\* progress never decreases.  Stated for a record only one task writes.
\* (Refuted: the percentage is taken of each event's own total.)
C10_ProgressNeverDecreases ==
    [][\A t \in DOMAIN threads :
          (Alone(threads[t].id) /\ StoresProgressOfLaterEvent(t))
          => download_progress'[threads[t].id].progress >= JobOf(t).progress]_vars


(***************************************************************************)
(* POST /api/info: what get_video_info (app.py) makes of the info dict the *)
(* collaborator's extract_info returned.                                   *)
(***************************************************************************)
FormatsLimit == 10

DescriptionLimit == 200

\* sequence[:n]
SliceTo(sequence, n) == IF Len(sequence) <= n THEN sequence ELSE SubSeq(sequence, 1, n)

\* f.get('height'): a format without a height (audio only) reports None, falsy like 0
HeightOf(f) == Get(f, "height", 0)

RECURSIVE SeenHeightsFrom(_, _, _)
\* the loop over info['formats'] from index i on, seen_heights being the heights
\* appended so far: one entry for the first format of every truthy height
SeenHeightsFrom(formats, i, seen_heights) ==
    IF i > Len(formats) THEN <<>>
    ELSE LET f == formats[i]
             height == HeightOf(f)
         IN  IF height # 0 /\ height \notin seen_heights
             THEN <<[quality |-> DigitsOf(height) \o <<"p">>, height |-> height,
                     ext |-> Get(f, "ext", <<"m","p","4">>)]>>
                  \o SeenHeightsFrom(formats, i + 1, seen_heights \cup {height})
             ELSE SeenHeightsFrom(formats, i + 1, seen_heights)

\* the list left in the order the collaborator reported it
KeepOrder(list) == list

RECURSIVE SortByHeightDescending(_)
\* formats.sort(key=lambda x: x['height'], reverse=True); the sort is stable, so
\* of equal heights the earlier entry comes first
SortByHeightDescending(list) ==
    IF list = <<>> THEN <<>>
    ELSE LET top == CHOOSE i \in 1..Len(list) :
                       /\ \A j \in 1..Len(list) : list[j].height <= list[i].height
                       /\ \A j \in 1..(i - 1) : list[j].height < list[i].height
         IN  <<list[top]>>
             \o SortByHeightDescending(SubSeq(list, 1, top - 1) \o SubSeq(list, top + 1, Len(list)))

\* the body of the 200 response
VideoInfoResponse(info) ==
    [success |-> TRUE,
     title |-> Get(info, "title", <<"U","n","k","n","o","w","n">>),
     duration |-> Get(info, "duration", 0),
     thumbnail |-> Get(info, "thumbnail", <<>>),
     uploader |-> Get(info, "uploader", <<"U","n","k","n","o","w","n">>),
     description |-> SliceTo(Get(info, "description", <<>>), DescriptionLimit),
     view_count |-> Get(info, "view_count", 0),
     formats |-> SliceTo(IF "formats" \in DOMAIN info
                         THEN SortByHeightDescending(SeenHeightsFrom(info.formats, 1, {}))
                         ELSE <<>>,
                         FormatsLimit)]

\* a text of n characters
TextOf(n) == <<>> \o [i \in 1..n |-> "d"]

\* formats lists the collaborator reports: heights in no order, a height reported
\* more than once with different containers, audio-only formats without a height
ReportedHeights == <<360, 144, 2160, 720, 240, 4320, 480, 1080, 1440, 540, 2880, 96>>

ManyFormats ==
    <<[ext |-> <<"m","4","a">>]>>
    \o [i \in 1..Len(ReportedHeights) |->
           [height |-> ReportedHeights[i], ext |-> IF i % 2 = 0 THEN <<"w","e","b","m">> ELSE <<"m","p","4">>]]
    \o [i \in 1..Len(ReportedHeights) |->
           [height |-> ReportedHeights[i], ext |-> IF i % 2 = 0 THEN <<"m","p","4">> ELSE <<"w","e","b","m">>]]

FewFormats ==
    <<[height |-> 720, ext |-> <<"w","e","b","m">>], [ext |-> <<"m","4","a">>], [height |-> 1080],
      [height |-> 720, ext |-> <<"m","p","4">>], [height |-> 360, ext |-> <<"3","g","p">>],
      [height |-> 1080, ext |-> <<"m","p","4">>]>>

FormatsLists == {ManyFormats, FewFormats, SliceTo(ManyFormats, FormatsLimit + 1), <<>>}

DescriptionLengths == {0, 1, DescriptionLimit - 1, DescriptionLimit, DescriptionLimit + 1, 2 * DescriptionLimit}

\* the info dicts extract_info returns to get_video_info
ProbedInfos ==
    {[title |-> <<"C","l","i","p">>, formats |-> formats, description |-> TextOf(n)] :
        formats \in FormatsLists, n \in DescriptionLengths}
    \cup {[title |-> <<"C","l","i","p">>, formats |-> formats] : formats \in FormatsLists}
    \cup {[title |-> <<"C","l","i","p">>, description |-> TextOf(n)] : n \in DescriptionLengths}

(***************************************************************************)
(* POST /api/info: the failure responses of get_video_info (app.py) for    *)
(* the message of the exception extract_info raised.                       *)
(***************************************************************************)
\* the `except Exception as extract_error` around the first extract_info: the
\* responses returned before the generic extractor is tried, <<>> when none is
InnerFailure(error_str) ==
    IF Contains(error_str, <<"D","R","M">>) \/ Contains(Lower(error_str), <<"d","r","m"," ","p","r","o","t","e","c","t","i","o","n">>)
    THEN <<[code |-> 500,
            error |-> <<"T","h","i","s"," ","c","o","n","t","e","n","t"," ","i","s"," ","D","R","M","-","p","r","o","t","e","c","t","e","d"," ","a","n","d"," ","c","a","n","n","o","t"," ","b","e"," ","d","o","w","n","l","o","a","d","e","d",".">>,
            suggestion |-> <<"D","R","M"," ","b","y","p","a","s","s"," ","i","s"," ","i","l","l","e","g","a","l"," ","a","n","d"," ","n","o","t"," ","s","u","p","p","o","r","t","e","d","."," ","U","s","e"," ","o","f","f","i","c","i","a","l"," ","a","p","p","s"," ","(","N","e","t","f","l","i","x",","," ","D","i","s","n","e","y","+",","," ","e","t","c",".",")"," ","t","o"," ","w","a","t","c","h",".">>,
            details |-> <<"S","e","r","v","i","c","e","s"," ","l","i","k","e"," ","N","e","t","f","l","i","x",","," ","D","i","s","n","e","y","+",","," ","A","m","a","z","o","n"," ","P","r","i","m","e",","," ","H","u","l","u",","," ","H","B","O"," ","M","a","x"," ","u","s","e"," ","D","R","M"," ","e","n","c","r","y","p","t","i","o","n"," ","w","h","i","c","h"," ","i","s"," ","l","e","g","a","l","l","y"," ","p","r","o","t","e","c","t","e","d",".">>]>>
    ELSE IF Contains(Lower(error_str), <<"n","e","e","d"," ","t","o"," ","l","o","g"," ","i","n">>) \/ Contains(Lower(error_str), <<"l","o","g","i","n"," ","r","e","q","u","i","r","e","d">>)
    THEN <<[code |-> 500,
            error |-> <<"T","h","i","s"," ","c","o","n","t","e","n","t"," ","r","e","q","u","i","r","e","s"," ","l","o","g","i","n","/","a","u","t","h","e","n","t","i","c","a","t","i","o","n",".">>,
            suggestion |-> <<"T","h","i","s"," ","i","s"," ","p","r","i","v","a","t","e"," ","c","o","n","t","e","n","t","."," ","S","e","e"," ","C","O","O","K","I","E","_","G","U","I","D","E",".","m","d"," ","f","o","r"," ","c","o","o","k","i","e"," ","e","x","p","o","r","t"," ","i","n","s","t","r","u","c","t","i","o","n","s",".">>,
            details |-> error_str]>>
    ELSE <<>>

\* the outer `except Exception as e` of get_video_info
OuterFailure(error_msg) ==
    IF Contains(error_msg, <<"D","R","M">>) \/ Contains(Lower(error_msg), <<"d","r","m"," ","p","r","o","t","e","c","t","i","o","n">>)
    THEN [code |-> 500,
          error |-> <<"T","h","i","s"," ","c","o","n","t","e","n","t"," ","i","s"," ","D","R","M","-","p","r","o","t","e","c","t","e","d"," ","a","n","d"," ","c","a","n","n","o","t"," ","b","e"," ","d","o","w","n","l","o","a","d","e","d",".">>,
          suggestion |-> <<"D","R","M"," ","b","y","p","a","s","s"," ","i","s"," ","i","l","l","e","g","a","l"," ","a","n","d"," ","n","o","t"," ","s","u","p","p","o","r","t","e","d","."," ","U","s","e"," ","o","f","f","i","c","i","a","l"," ","a","p","p","s"," ","t","o"," ","w","a","t","c","h",".">>,
          details |-> <<"S","e","r","v","i","c","e","s"," ","l","i","k","e"," ","N","e","t","f","l","i","x",","," ","D","i","s","n","e","y","+",","," ","A","m","a","z","o","n"," ","P","r","i","m","e",","," ","H","u","l","u"," ","u","s","e"," ","D","R","M"," ","e","n","c","r","y","p","t","i","o","n"," ","w","h","i","c","h"," ","i","s"," ","l","e","g","a","l","l","y"," ","p","r","o","t","e","c","t","e","d"," ","a","n","d"," ","c","a","n","n","o","t"," ","b","e"," ","b","y","p","a","s","s","e","d",".">>]
    ELSE IF \/ Contains(Lower(error_msg), <<"n","e","e","d"," ","t","o"," ","l","o","g"," ","i","n">>)
            \/ Contains(Lower(error_msg), <<"l","o","g","i","n"," ","r","e","q","u","i","r","e","d">>)
            \/ Contains(Lower(error_msg), <<"c","o","o","k","i","e","s">>)
            \/ Contains(Lower(error_msg), <<"n","s","f","w">>)
    THEN [code |-> 500,
          error |-> <<"T","h","i","s"," ","c","o","n","t","e","n","t"," ","r","e","q","u","i","r","e","s"," ","l","o","g","i","n","/","a","u","t","h","e","n","t","i","c","a","t","i","o","n",".">>,
          suggestion |-> <<"E","x","p","o","r","t"," ","c","o","o","k","i","e","s"," ","f","r","o","m"," ","y","o","u","r"," ","b","r","o","w","s","e","r","."," ","S","e","e"," ","C","O","O","K","I","E","_","G","U","I","D","E",".","m","d"," ","f","o","r"," ","i","n","s","t","r","u","c","t","i","o","n","s",".">>,
          details |-> <<"P","r","i","v","a","t","e",","," ","p","r","o","t","e","c","t","e","d",","," ","o","r"," ","N","S","F","W"," ","c","o","n","t","e","n","t"," ","r","e","q","u","i","r","e","s"," ","y","o","u"," ","t","o"," ","b","e"," ","l","o","g","g","e","d"," ","i","n",".">>]
    ELSE IF Contains(error_msg, <<"U","n","s","u","p","p","o","r","t","e","d"," ","U","R","L">>)
    THEN [code |-> 500,
          error |-> <<"T","h","i","s"," ","s","i","t","e"," ","i","s"," ","n","o","t"," ","s","u","p","p","o","r","t","e","d"," ","o","r"," ","t","h","e"," ","U","R","L"," ","f","o","r","m","a","t"," ","i","s"," ","i","n","c","o","r","r","e","c","t",".">>,
          suggestion |-> <<"T","r","y"," ","u","p","d","a","t","i","n","g"," ","y","t","-","d","l","p",":"," ","R","u","n"," ","u","p","d","a","t","e","_","y","t","d","l","p",".","b","a","t"," ","o","r",":"," ","p","i","p"," ","i","n","s","t","a","l","l"," ","-","-","u","p","g","r","a","d","e"," ","y","t","-","d","l","p">>,
          details |-> error_msg]
    ELSE IF Contains(error_msg, <<"N","o"," ","v","i","d","e","o"," ","f","o","r","m","a","t","s"," ","f","o","u","n","d">>)
    THEN [code |-> 500,
          error |-> <<"N","o"," ","v","i","d","e","o"," ","f","o","r","m","a","t","s"," ","f","o","u","n","d","."," ","T","h","e"," ","s","i","t","e"," ","m","a","y"," ","h","a","v","e"," ","c","h","a","n","g","e","d"," ","i","t","s"," ","f","o","r","m","a","t",".">>,
          suggestion |-> <<"U","p","d","a","t","e"," ","y","t","-","d","l","p",":"," ","R","u","n"," ","u","p","d","a","t","e","_","y","t","d","l","p",".","b","a","t"," ","o","r",":"," ","p","i","p"," ","i","n","s","t","a","l","l"," ","-","-","u","p","g","r","a","d","e"," ","y","t","-","d","l","p">>,
          details |-> error_msg]
    ELSE IF Contains(error_msg, <<"H","T","T","P"," ","E","r","r","o","r"," ","4","0","4">>)
    THEN [code |-> 500,
          error |-> <<"V","i","d","e","o"," ","n","o","t"," ","f","o","u","n","d"," ","(","4","0","4",")","."," ","T","h","e"," ","v","i","d","e","o"," ","m","a","y"," ","h","a","v","e"," ","b","e","e","n"," ","d","e","l","e","t","e","d"," ","o","r"," ","t","h","e"," ","U","R","L"," ","i","s"," ","i","n","c","o","r","r","e","c","t",".">>,
          suggestion |-> <<"C","h","e","c","k"," ","t","h","e"," ","U","R","L"," ","a","n","d"," ","t","r","y"," ","a","g","a","i","n",".">>,
          details |-> error_msg]
    ELSE IF Contains(error_msg, <<"U","n","a","b","l","e"," ","t","o"," ","e","x","t","r","a","c","t">>) \/ Contains(error_msg, <<"F","a","i","l","e","d"," ","t","o"," ","p","a","r","s","e">>)
    THEN [code |-> 500,
          error |-> <<"F","a","i","l","e","d"," ","t","o"," ","e","x","t","r","a","c","t"," ","v","i","d","e","o"," ","i","n","f","o","r","m","a","t","i","o","n","."," ","T","h","e"," ","s","i","t","e"," ","f","o","r","m","a","t"," ","m","a","y"," ","h","a","v","e"," ","c","h","a","n","g","e","d",".">>,
          suggestion |-> <<"U","p","d","a","t","e"," ","y","t","-","d","l","p",":"," ","R","u","n"," ","u","p","d","a","t","e","_","y","t","d","l","p",".","b","a","t"," ","o","r",":"," ","p","i","p"," ","i","n","s","t","a","l","l"," ","-","-","u","p","g","r","a","d","e"," ","y","t","-","d","l","p">>,
          details |-> error_msg]
    ELSE IF \/ Contains(error_msg, <<"C","l","o","u","d","f","l","a","r","e">>)
            \/ Contains(error_msg, <<"H","T","T","P"," ","E","r","r","o","r"," ","4","0","3">>)
            \/ Contains(error_msg, <<"i","m","p","e","r","s","o","n","a","t","e">>)
    THEN [code |-> 500,
          error |-> <<"S","i","t","e"," ","i","s"," ","p","r","o","t","e","c","t","e","d"," ","b","y"," ","C","l","o","u","d","f","l","a","r","e"," ","a","n","t","i","-","b","o","t",".">>,
          suggestion |-> <<"I","n","s","t","a","l","l"," ","b","y","p","a","s","s",":"," ","p","i","p"," ","i","n","s","t","a","l","l"," ","c","u","r","l","-","c","f","f","i",","," ","t","h","e","n"," ","r","e","s","t","a","r","t","."," ","S","e","e"," ","C","L","O","U","D","F","L","A","R","E","_","B","Y","P","A","S","S",".","m","d">>,
          details |-> error_msg]
    ELSE [code |-> 500,
          error |-> error_msg,
          suggestion |-> <<"T","r","y"," ","u","p","d","a","t","i","n","g"," ","y","t","-","d","l","p",":"," ","R","u","n"," ","u","p","d","a","t","e","_","y","t","d","l","p",".","b","a","t"," ","o","r",":"," ","p","i","p"," ","i","n","s","t","a","l","l"," ","-","-","u","p","g","r","a","d","e"," ","y","t","-","d","l","p">>]

\* the failure response of a request whose extract_info raised error_str and whose
\* retry with the generic extractor raised too: `raise extract_error` hands the first
\* exception to the outer handler
InfoFailure(error_str) ==
    IF InnerFailure(error_str) # <<>> THEN InnerFailure(error_str)[1] ELSE OuterFailure(error_str)
(***************************************************************************)
(* The validators called on their own: the argument is drawn when the      *)
(* behaviour starts, and the one step is the call.                         *)
(***************************************************************************)
\* the parts URLs are put together from
UrlSchemes == {<<"h","t","t","p">>, <<"h","t","t","p","s">>, <<"H","t","T","p">>}

UrlUserinfos == {<<>>, <<"u","@">>, <<"u",":","p","@">>}

UrlPorts == {<<>>, <<":","8","0">>, <<":","8","0","8","0">>}

UrlRests == {<<>>, <<"/">>, <<"/","V","i","d","e","o","?","i","d","=","1">>, <<"?","q","=","A">>, <<"#","t","o","p">>}

\* every URL scheme://userinfo host port rest with a host of the set
UrlsOfHosts(hosts) ==
    {scheme \o <<":","/","/">> \o userinfo \o host \o port \o rest :
        scheme \in UrlSchemes, userinfo \in UrlUserinfos, host \in hosts,
        port \in UrlPorts, rest \in UrlRests}

\* spellings of the hostnames validate_url lists
ListedHosts ==
    {<<"l","o","c","a","l","h","o","s","t">>, <<"L","o","c","a","l","H","o","s","t">>, <<"L","O","C","A","L","H","O","S","T">>, <<"1","2","7",".","0",".","0",".","1">>, <<"0",".","0",".","0",".","0">>, <<"[",":",":","1","]">>,
     <<"1","6","9",".","2","5","4",".","1","6","9",".","2","5","4">>, <<"1","0",".","0",".","0",".","1">>, <<"1","0",".","E","x","a","m","p","l","e",".","c","o","m">>, <<"1","7","2",".","1","6",".","0",".","1">>, <<"1","7","2",".","2","1","7",".","0",".","1">>,
     <<"1","9","2",".","1","6","8",".","1",".","1">>, <<"1","9","2",".","1","6","8",".","X">>}

ListedHostUrls == UrlsOfHosts(ListedHosts)

\* loopback, link-local, private-range and metadata hosts
InternalHosts ==
    {<<"1","2","7",".","0",".","0",".","1">>, <<"1","2","7",".","0",".","0",".","2">>, <<"1","2","7",".","2","5","5",".","2","5","5",".","2","5","4">>, <<"l","o","c","a","l","h","o","s","t">>, <<"l","o","c","a","l","h","o","s","t",".">>,
     <<"1","6","9",".","2","5","4",".","1",".","1">>, <<"1","6","9",".","2","5","4",".","1","6","9",".","2","5","4">>, <<"1","0",".","0",".","0",".","1">>, <<"1","7","2",".","1","6",".","0",".","1">>, <<"1","9","2",".","1","6","8",".","1",".","1">>}

InternalHostUrls == UrlsOfHosts(InternalHosts)

\* URLs without a hostname
NoHostUrls == {<<"h","t","t","p",":","/","/","/","x">>, <<"h","t","t","p","s",":","/","/">>, <<"h","t","t","p",":","x">>, <<"h","t","t","p",":","/","/",":","8","0","/">>, <<"h","t","t","p","s",":","/","/","u","@","/","x">>}

\* URLs holding a script tag, a path traversal or an SQL phrase as written
PlainPatternUrls ==
    {<<"h","t","t","p",":","/","/","a",".","i","o","/","?","q","=","<","s","c","r","i","p","t",">","x","<","/","s","c","r","i","p","t",">">>, <<"h","t","t","p",":","/","/","a",".","i","o","/","<","S","C","R","I","P","T"," ","s","r","c","=","x",">","a","<","/","S","C","R","I","P","T",">">>,
     <<"<","s","c","r","i","p","t",">","a","l","e","r","t","(","1",")","<","/","s","c","r","i","p","t",">">>, <<"h","t","t","p",":","/","/","a",".","i","o","/",".",".","/",".",".","/","e","t","c">>, <<"h","t","t","p",":","/","/","a",".","i","o","/",".",".","\\",".",".","\\","x">>,
     <<"h","t","t","p",":","/","/","a",".","i","o","/","?","q","=","u","n","i","o","n"," ","s","e","l","e","c","t"," ","1">>, <<"h","t","t","p",":","/","/","a",".","i","o","/","?","q","=","1"," ","U","N","I","O","N"," "," ","S","E","L","E","C","T">>,
     <<"h","t","t","p",":","/","/","a",".","i","o","/","?","q","=","D","r","o","p"," ","T","a","b","l","e"," ","t">>, <<"h","t","t","p",":","/","/","a",".","i","o","/","?","q","=","i","n","s","e","r","t"," ","i","n","t","o"," ","t">>,
     <<"h","t","t","p",":","/","/","a",".","i","o","/","?","q","=","d","e","l","e","t","e"," ","f","r","o","m"," ","t">>, <<"h","t","t","p",":","/","/","a",".","i","o","/","?","q","=","u","p","d","a","t","e"," ","t"," ","s","e","t"," ","a">>}

\* the same with an unclosed tag, a single traversal segment, encoded whitespace
VariedPatternUrls ==
    {<<"h","t","t","p",":","/","/","a",".","i","o","/","?","q","=","<","s","c","r","i","p","t",">","a","l","e","r","t","(","1",")">>, <<"h","t","t","p",":","/","/","a",".","i","o","/",".",".","/","e","t","c">>,
     <<"h","t","t","p",":","/","/","a",".","i","o","/","?","q","=","u","n","i","o","n","%","2","0","s","e","l","e","c","t">>, <<"h","t","t","p",":","/","/","a",".","i","o","/","?","q","=","d","r","o","p","+","t","a","b","l","e">>,
     <<"h","t","t","p",":","/","/","a",".","i","o","/","?","q","=","u","p","d","a","t","e","%","2","0","t","%","2","0","s","e","t">>}

BlockedPatternUrls == PlainPatternUrls \cup VariedPatternUrls

\* a URL of n characters on a public host
UrlOfLength(n) == <<"h","t","t","p",":","/","/","a",".","i","o","/">> \o [i \in 1..(n - 12) |-> "a"]

\* URLs at and one past MAX_URL_LENGTH, the longer one also with a traversal
LengthUrls ==
    {UrlOfLength(MAX_URL_LENGTH), UrlOfLength(MAX_URL_LENGTH + 1),
     <<"f","t","p",":","/","/","l","o","c","a","l","h","o","s","t","/",".",".","/",".",".","/">> \o UrlOfLength(MAX_URL_LENGTH)}

\* URLs with a scheme other than http and https
OtherSchemeUrls ==
    {<<"f","t","p",":","/","/","a",".","i","o","/","v">>, <<"f","i","l","e",":","/","/","/","e","t","c","/","p","a","s","s","w","d">>, <<"m","a","i","l","t","o",":","a","@","b",".","i","o">>, <<"h","t","t","p","x",":","/","/","a",".","i","o","/","v">>,
     <<"F","T","P",":","/","/","a",".","i","o","/","v">>, <<"w","s",":","/","/","a",".","i","o","/","v">>}

\* URLs without a scheme
NoSchemeUrls == {<<"a",".","i","o","/","v">>, <<"/","/","a",".","i","o","/","v">>, <<"/","v">>, <<"h","t","t","p">>, <<":","/","/","a",".","i","o","/","v">>, <<"1","h","t","t","p",":","/","/","a",".","i","o","/","v">>}

\* URLs failing several checks at once, each with the message of its first failure
FirstFailures ==
    {<<<<"f","t","p",":","/","/","l","o","c","a","l","h","o","s","t","/",".",".","/",".",".","/">> \o UrlOfLength(MAX_URL_LENGTH), "URL too long">>,
     <<<<"h","t","t","p",":","/","/","[","a",".","i","o","/",".",".","/",".",".","/","x">>, "URL contains suspicious content">>,
     <<<<"f","t","p",":","/","/","a",".","i","o","/",".",".","/",".",".","/","x">>, "URL contains suspicious content">>,
     <<<<"h","t","t","p",":","/","/","l","o","c","a","l","h","o","s","t","/",".",".","/",".",".","/","x">>, "URL contains suspicious content">>,
     <<<<"f","t","p",":","/","/","[","a",".","i","o","/","v">>, "Invalid URL format">>,
     <<<<"h","t","t","p",":","/","/","[","l","o","c","a","l","h","o","s","t","/","v">>, "Invalid URL format">>,
     <<<<"f","t","p",":","/","/","l","o","c","a","l","h","o","s","t","/","v">>, "Only http, https URLs are allowed">>,
     <<<<"f","t","p",":","/","/","1","0",".","0",".","0",".","1","/","v">>, "Only http, https URLs are allowed">>,
     <<<<"h","t","t","p",":","/","/","l","o","c","a","l","h","o","s","t","/","v">>, "Local URLs are not allowed">>}

\* URLs on a public host
PublicUrls == {<<"h","t","t","p",":","/","/","a",".","i","o","/","v">>, <<"h","t","t","p","s",":","/","/","a",".","i","o","/","v","?","i","d","=","1">>, <<"H","T","T","P","S",":","/","/","A",".","i","o","/">>}

\* the URLs validate_url is called with
UrlInputs ==
    ListedHostUrls \cup InternalHostUrls \cup NoHostUrls \cup BlockedPatternUrls
        \cup {<<>>} \cup LengthUrls \cup OtherSchemeUrls \cup NoSchemeUrls
        \cup {pair[1] : pair \in FirstFailures} \cup PublicUrls

\* the values validate_quality and validate_format are called with
EnumInputs ==
    {JNull, JNum(0), JNum(7), JNum(480), JNum(720)}
        \cup {JStr(s) : s \in
                 {<<>>, <<" ">>, <<"\t","\n">>, <<"b","e","s","t">>, <<"4","k">>, <<"1","0","8","0","p">>, <<"7","2","0","p">>, <<"4","8","0","p">>,
                  <<"B","E","S","T">>, <<"4","K">>, <<" ","7","2","0","P"," ">>, <<"\t","1","0","8","0","p","\n">>, <<"4","8","0","P"," "," ">>, <<"8","k">>, <<"7","2","0">>,
                  <<"7"," ","2","0","p">>, <<"b","e","s","t","e","s","t">>, <<"N","o","n","e">>, <<"v","i","d","e","o">>, <<"a","u","d","i","o">>, <<"A","u","d","i","o">>,
                  <<" ","V","I","D","E","O"," ">>, <<"\n","a","u","d","i","o">>, <<"v","i","d"," ","e","o">>, <<"m","p","3">>, <<"0">>}}

\* settings whose audio bitrate follows the requested quality
FormatSettingsBitrateByQuality(quality, format_type) ==
    IF format_type = <<"a","u","d","i","o">> THEN
        [format |-> <<"b","e","s","t","a","u","d","i","o","/","b","e","s","t">>,
         postprocessors |-> <<[key |-> <<"F","F","m","p","e","g","E","x","t","r","a","c","t","A","u","d","i","o">>,
                               preferredcodec |-> <<"m","p","3">>,
                               preferredquality |-> IF quality = <<"b","e","s","t">> THEN <<"3","2","0">> ELSE <<"1","9","2">>]>>,
         keepvideo |-> FALSE]
    ELSE [format |-> <<"b","e","s","t">>, merge_output_format |-> <<"m","p","4">>]

\* download_video: the entries the quality and the format add to ydl_opts
FormatSettings(quality, format_type) ==
    IF format_type = <<"v","i","d","e","o">> THEN
        IF quality = <<"b","e","s","t">> THEN
            [format |-> <<"b","e","s","t","v","i","d","e","o","[","e","x","t","=","m","p","4","]","+","b","e","s","t","a","u","d","i","o","[","e","x","t","=","m","4","a","]","/">>
                        \o <<"b","e","s","t","v","i","d","e","o","+","b","e","s","t","a","u","d","i","o","/">>
                        \o <<"b","e","s","t","[","e","x","t","=","m","p","4","]","/">>
                        \o <<"b","e","s","t">>,
             merge_output_format |-> <<"m","p","4">>]
        ELSE IF quality = <<"4","k">> THEN
            [format |-> <<"b","e","s","t","v","i","d","e","o","[","h","e","i","g","h","t",">","=","2","1","6","0","]","[","e","x","t","=","m","p","4","]","+","b","e","s","t","a","u","d","i","o","[","e","x","t","=","m","4","a","]","/">>
                        \o <<"b","e","s","t","v","i","d","e","o","[","h","e","i","g","h","t",">","=","2","1","6","0","]","+","b","e","s","t","a","u","d","i","o","/">>
                        \o <<"b","e","s","t","[","h","e","i","g","h","t",">","=","2","1","6","0","]","/">>
                        \o <<"b","e","s","t","v","i","d","e","o","+","b","e","s","t","a","u","d","i","o","/">>
                        \o <<"b","e","s","t">>,
             merge_output_format |-> <<"m","p","4">>]
        ELSE IF quality = <<"1","0","8","0","p">> THEN
            [format |-> <<"b","e","s","t","v","i","d","e","o","[","h","e","i","g","h","t","<","=","1","0","8","0","]","[","e","x","t","=","m","p","4","]","+","b","e","s","t","a","u","d","i","o","[","e","x","t","=","m","4","a","]","/">>
                        \o <<"b","e","s","t","v","i","d","e","o","[","h","e","i","g","h","t","<","=","1","0","8","0","]","+","b","e","s","t","a","u","d","i","o","/">>
                        \o <<"b","e","s","t","[","h","e","i","g","h","t","<","=","1","0","8","0","]","/">>
                        \o <<"b","e","s","t">>,
             merge_output_format |-> <<"m","p","4">>]
        ELSE IF quality = <<"7","2","0","p">> THEN
            [format |-> <<"b","e","s","t","v","i","d","e","o","[","h","e","i","g","h","t","<","=","7","2","0","]","[","e","x","t","=","m","p","4","]","+","b","e","s","t","a","u","d","i","o","[","e","x","t","=","m","4","a","]","/">>
                        \o <<"b","e","s","t","v","i","d","e","o","[","h","e","i","g","h","t","<","=","7","2","0","]","+","b","e","s","t","a","u","d","i","o","/">>
                        \o <<"b","e","s","t","[","h","e","i","g","h","t","<","=","7","2","0","]","/">>
                        \o <<"b","e","s","t">>,
             merge_output_format |-> <<"m","p","4">>]
        ELSE EmptyDict
    ELSE IF format_type = <<"a","u","d","i","o">> THEN
        [format |-> <<"b","e","s","t","a","u","d","i","o","/","b","e","s","t">>,
         postprocessors |-> <<[key |-> <<"F","F","m","p","e","g","E","x","t","r","a","c","t","A","u","d","i","o">>,
                               preferredcodec |-> <<"m","p","3">>,
                               preferredquality |-> <<"3","2","0">>]>>,
         keepvideo |-> FALSE]
    ELSE EmptyDict

\* messages of exceptions reaching the handler of download_video, each with the
\* failure category of the first rule it matches
ClassifiedMessages ==
    {<<<<"D","R","M"," ","p","r","o","t","e","c","t","i","o","n"," ","d","e","t","e","c","t","e","d">>, "drm">>,
     <<<<"T","h","i","s"," ","v","i","d","e","o"," ","h","a","s"," ","D","r","m"," ","P","r","o","t","e","c","t","i","o","n">>, "drm">>,
     <<<<"D","R","M",":"," ","l","o","g","i","n"," ","r","e","q","u","i","r","e","d">>, "drm">>,
     <<<<"D","R","M"," ","H","T","T","P"," ","E","r","r","o","r"," ","4","0","4"," ","C","l","o","u","d","f","l","a","r","e">>, "drm">>,
     <<<<"Y","o","u"," ","N","e","e","d"," ","T","o"," ","L","o","g"," ","I","n">>, "auth">>,
     <<<<"l","o","g","i","n"," ","r","e","q","u","i","r","e","d",":"," ","H","T","T","P"," ","E","r","r","o","r"," ","4","0","3">>, "auth">>,
     <<<<"U","s","e"," ","-","-","c","o","o","k","i","e","s",":"," ","U","n","s","u","p","p","o","r","t","e","d"," ","U","R","L">>, "auth">>,
     <<<<"N","S","F","W"," ","t","w","e","e","t">>, "auth">>,
     <<<<"U","n","s","u","p","p","o","r","t","e","d"," ","U","R","L",":"," ","h","t","t","p",":","/","/","a",".","i","o">>, "unsupported">>,
     <<<<"U","n","s","u","p","p","o","r","t","e","d"," ","U","R","L",":"," ","H","T","T","P"," ","E","r","r","o","r"," ","4","0","4">>, "unsupported">>,
     <<<<"N","o"," ","v","i","d","e","o"," ","f","o","r","m","a","t","s"," ","f","o","u","n","d">>, "unsupported">>,
     <<<<"H","T","T","P"," ","E","r","r","o","r"," ","4","0","4",":"," ","N","o","t"," ","F","o","u","n","d">>, "notfound">>,
     <<<<"U","n","a","b","l","e"," ","t","o"," ","e","x","t","r","a","c","t",":"," ","H","T","T","P"," ","E","r","r","o","r"," ","4","0","4">>, "notfound">>,
     <<<<"U","n","a","b","l","e"," ","t","o"," ","e","x","t","r","a","c","t"," ","t","i","t","l","e">>, "extraction">>,
     <<<<"C","l","o","u","d","f","l","a","r","e",":"," ","F","a","i","l","e","d"," ","t","o"," ","p","a","r","s","e"," ","J","S","O","N">>, "extraction">>,
     <<<<"H","T","T","P"," ","E","r","r","o","r"," ","4","0","3",":"," ","F","o","r","b","i","d","d","e","n">>, "bot">>,
     <<<<"C","l","o","u","d","f","l","a","r","e"," ","c","h","a","l","l","e","n","g","e">>, "bot">>,
     <<<<"c","a","n","n","o","t"," ","i","m","p","e","r","s","o","n","a","t","e">>, "bot">>,
     <<<<"s","o","m","e"," ","n","e","v","e","r"," ","s","e","e","n"," ","m","e","s","s","a","g","e">>, "generic">>,
     <<<<"d","r","m">>, "generic">>,
     <<<<"h","t","t","p"," ","e","r","r","o","r"," ","4","0","4">>, "generic">>,
     <<<<>>, "generic">>}

\* the calls: the function and its argument
FnCalls ==
    {[fn |-> "validate_url", arg |-> url, done |-> FALSE] : url \in UrlInputs}
        \cup {[fn |-> fn, arg |-> value, done |-> FALSE] :
                 fn \in {"validate_quality", "validate_format"}, value \in EnumInputs}
        \cup {[fn |-> "except", arg |-> pair[1], done |-> FALSE] : pair \in ClassifiedMessages}
        \cup {[fn |-> "download_video", arg |-> <<quality, format_type>>, done |-> FALSE] :
                 quality \in allowed_qualities, format_type \in allowed_formats}
        \cup {[fn |-> "get_video_info", arg |-> info, done |-> FALSE] : info \in ProbedInfos}
        \cup {[fn |-> "classify", arg |-> <<first[1], second[1]>>, done |-> FALSE] :
                 first \in ClassifiedMessages, second \in ClassifiedMessages}

FnInit ==
    /\ now = 0
    /\ download_progress = EmptyDict
    /\ download_history = <<>>
    /\ threads = <<>>
    /\ events = 0
    /\ requests = 0
    /\ response = NoResponse
    /\ call \in FnCalls
    /\ files = EmptyDict
    /\ sweeper = SweeperOff

\* the call returns: the result is kept with the argument
Returns(result) ==
    /\ ~call.done
    /\ call' = [fn |-> call.fn, arg |-> call.arg, done |-> TRUE, result |-> result]
    /\ UNCHANGED <<now, download_progress, download_history, threads, events, requests,
                   response, files, sweeper>>

\* SecurityValidator.validate_url(url)
CallValidateUrl == call.fn = "validate_url" /\ Returns(validate_url(call.arg))

\* SecurityValidator.validate_quality(quality)
CallValidateQuality == call.fn = "validate_quality" /\ Returns(validate_quality(call.arg))

\* SecurityValidator.validate_format(format_type)
CallValidateFormat == call.fn = "validate_format" /\ Returns(validate_format(call.arg))

\* download_video(url, download_id, quality, format_type) up to the options it
\* hands to yt_dlp.YoutubeDL
CallFormatSettings ==
    call.fn = "download_video" /\ Returns(FormatSettings(call.arg[1], call.arg[2]))

\* download_video: `except Exception as e` choosing the text it stores
CallClassifyError == call.fn = "except" /\ Returns(ClassifyError(call.arg))

\* get_video_info from the info dict to the response
CallVideoInfo == call.fn = "get_video_info" /\ Returns(VideoInfoResponse(call.arg))

\* the same two failure messages met by a download (the text download_video
\* stores) and by a request for info (the response get_video_info returns)
CallClassifyBoth ==
    /\ call.fn = "classify"
    /\ Returns([recorded |-> <<ClassifyError(call.arg[1]), ClassifyError(call.arg[2])>>,
                reported |-> <<InfoFailure(call.arg[1]), InfoFailure(call.arg[2])>>])

FnNext ==
    \/ CallClassifyError
    \/ CallClassifyBoth
    \/ CallVideoInfo
    \/ CallValidateUrl
    \/ CallValidateQuality
    \/ CallValidateFormat
    \/ CallFormatSettings

FnSpec == FnInit /\ [][FnNext]_vars

\* validate_url has returned for this URL
Validated_url(url) == call.fn = "validate_url" /\ call.done /\ call.arg = url

\* validate_url has returned and reported the URL invalid
UrlRejected == call.fn = "validate_url" /\ call.done /\ ~call.result[1]

\* C12: validate_url rejects every http/https URL whose hostname is localhost,
\* 127.0.0.1, 0.0.0.0, ::1, 169.254.169.254 or begins with 10., 172. or 192.168.,
\* whatever the letter case of the hostname and whatever userinfo, port, path,
\* query or fragment the URL has.
C12_ListedHostsRejected ==
    (call.fn = "validate_url" /\ call.done /\ call.arg \in ListedHostUrls)
        => ~call.result[1]

\* a URL of a listed host in capitals, with userinfo, port, path and query, was rejected
C12_Witness ==
    /\ Validated_url(<<"h","t","t","p","s",":","/","/","u",":","p","@","L","o","c","a","l","H","o","s","t",":","8","0","8","0","/","V","i","d","e","o","?","i","d","=","1">>)
    /\ call.result = <<FALSE, "Local URLs are not allowed">>

\* C13: validate_url rejects every URL whose host is a loopback address (any
\* 127.x.x.x, localhost with a trailing dot), a link-local address (any
\* 169.254.x.x), a private-range or a metadata address, and every URL without a
\* hostname.
\* (Refuted: the host is compared with four names, three prefixes and one address;
\* a URL without a hostname skips the host checks.)
C13_InternalHostsRejected ==
    (call.fn = "validate_url" /\ call.done /\ call.arg \in InternalHostUrls \cup NoHostUrls)
        => ~call.result[1]

\* C14: validate_url rejects every URL that holds a blocked pattern anywhere and in
\* any letter case: a script tag, a path traversal (a single ../ included) or an
\* SQL phrase, also with URL-encoded whitespace between its words.
\* (Refuted: the patterns want a closed script element, two traversal segments and
\* literal whitespace.)
C14_BlockedPatternsRejected ==
    (call.fn = "validate_url" /\ call.done /\ call.arg \in BlockedPatternUrls)
        => ~call.result[1]

\* C11: in every reachable state every job record has its progress in 0..100 and,
\* when the byte counters are present, downloaded <= total, whatever byte values
\* the events carry.
\* (Refuted: progress_hook stores the quotient of the event's own counters and an
\* estimated total can lie below the bytes already downloaded.)
C11_ProgressAndCountersInRange ==
    \A id \in DOMAIN download_progress :
        LET record == download_progress[id]
        IN  /\ record.progress \in 0..100
            /\ ({"downloaded", "total"} \subseteq DOMAIN record
                    => record.downloaded <= record.total)


\* C15: validate_url reports a URL valid only when it is non-empty, has at most
\* 2048 characters and its scheme is http or https; the empty URL, every URL longer
\* than 2048 characters and every URL with another or with no scheme is rejected;
\* a URL failing several checks gets the message of the first failure in the order
\* empty, length, blocked pattern, parse, scheme, host.
C15_ValidOnlyHttpInOrder ==
    (call.fn = "validate_url" /\ call.done) =>
        /\ call.result[1] =>
               /\ call.arg # <<>>
               /\ Len(call.arg) <= 2048
               /\ UrlScheme(call.arg) \in {<<"h","t","t","p">>, <<"h","t","t","p","s">>}
        /\ call.arg = <<>> => call.result = <<FALSE, "URL is required">>
        /\ Len(call.arg) > 2048 => call.result = <<FALSE, "URL too long">>
        /\ call.arg \in OtherSchemeUrls \cup NoSchemeUrls => ~call.result[1]
        /\ \A pair \in FirstFailures :
               call.arg = pair[1] => call.result = <<FALSE, pair[2]>>

\* a URL one character too long, on a local host and with a traversal, was
\* rejected for its length
C15_Witness ==
    /\ Validated_url(<<"f","t","p",":","/","/","l","o","c","a","l","h","o","s","t","/",".",".","/",".",".","/">> \o UrlOfLength(MAX_URL_LENGTH))
    /\ call.result = <<FALSE, "URL too long">>

\* the JSON value as text with surrounding whitespace removed and in lower case
Normalised(value) == Lower(Strip(PyStr(value)))

\* the result keeps to the enum: default for a missing value, the member for a
\* value naming one, rejection with the default for every other value
EnumContract(value, result, members, default, missing) ==
    /\ result[2] \in members
    /\ missing => result = <<TRUE, default>>
    /\ (~missing /\ Normalised(value) \in members) => result = <<TRUE, Normalised(value)>>
    /\ (~missing /\ Normalised(value) \notin members) => result = <<FALSE, default>>

\* the contract of the call that has returned, for a reading of "missing"
EnumContractHolds(missing) ==
    /\ (call.fn = "validate_quality" /\ call.done) =>
           EnumContract(call.arg, call.result,
                        {<<"b","e","s","t">>, <<"4","k">>, <<"1","0","8","0","p">>, <<"7","2","0","p">>, <<"4","8","0","p">>}, <<"b","e","s","t">>, missing)
    /\ (call.fn = "validate_format" /\ call.done) =>
           EnumContract(call.arg, call.result, {<<"v","i","d","e","o">>, <<"a","u","d","i","o">>}, <<"v","i","d","e","o">>, missing)

\* C16, as stated: validate_quality returns a value of {best, 4k, 1080p, 720p,
\* 480p} and validate_format one of {video, audio}; an absent or empty input gives
\* (valid, default), an input equal to a member after trimming and lower-casing
\* gives (valid, member), every other input gives (invalid, default).
\* (Violated by the number 0, which is neither absent nor empty nor a member and
\* is answered (valid, default).)
C16_AbsentOrEmptyIsDefault ==
    EnumContractHolds(call.arg \in {JNull, JStr(<<>>)})

\* C16, amended: the inputs answered (valid, default) are the absent, the empty
\* and the zero one, that is every input Python counts as false.
C16_FalsyIsDefault ==
    EnumContractHolds(call.arg \in {JNull, JStr(<<>>), JNum(0)})

\* a quality in capitals between blanks was accepted as its enum member
C16_Witness ==
    /\ call.fn = "validate_quality" /\ call.done
    /\ call.arg = JStr(<<" ","7","2","0","P"," ">>)
    /\ call.result = <<TRUE, <<"7","2","0","p">>>>

RECURSIVE SplitOn(_, _)
\* s.split(c): the parts of s between the occurrences of the character c
SplitOn(s, c) ==
    LET i == FindFrom(s, 1, {c})
    IN  IF i = 0 THEN <<s>>
        ELSE <<SubSeq(s, 1, i - 1)>> \o SplitOn(SubSeq(s, i + 1, Len(s)), c)

\* the height a quality names, as the text of a ceiling filter
CeilingOf(quality) ==
    IF quality = <<"4","k">> THEN <<"[","h","e","i","g","h","t","<","=","2","1","6","0","]">>
    ELSE <<"[","h","e","i","g","h","t","<","=">> \o SubSeq(quality, 1, Len(quality) - 1) \o <<"]">>

\* the selector is a fallback chain for the quality: some alternatives come
\* first that keep to the ceiling (none for best), the others follow, best is last
IsFallbackChain(selector, quality) ==
    LET chain == SplitOn(selector, "/")
    IN  /\ chain[Len(chain)] = <<"b","e","s","t">>
        /\ quality # <<"b","e","s","t">> =>
               \E k \in 1..(Len(chain) - 1) :
                   /\ \A i \in 1..k : Contains(chain[i], CeilingOf(quality))
                   /\ \A i \in (k + 1)..Len(chain) : ~Contains(chain[i], <<"[","h","e","i","g","h","t">>)

\* C17: for each of the qualities best, 4k, 1080p, 720p, 480p with the kind video,
\* download_video gives the collaborator an explicit format selector that is a
\* fallback chain: alternatives held to the ceiling of the quality first, the
\* unconstrained best last.
\* (Refuted: no branch sets a selector for 480p; the 4k alternatives carry a floor
\* height>=2160.)
C17_VideoSelectorIsFallbackChain ==
    (call.fn = "download_video" /\ call.done /\ call.arg[2] = <<"v","i","d","e","o">>) =>
        /\ "format" \in DOMAIN call.result
        /\ IsFallbackChain(call.result.format, call.arg[1])

\* C18: GET /api/progress/{id} answers 400 for every requested id that does not
\* match ^download_\d+$, whatever the registry holds; an id that matches only once
\* sanitised (whitespace, markup or null bytes removed, or cut to 50 characters)
\* is answered 400 too, never with a job record.
\* (Refuted: get_progress matches the sanitised id and looks that one up.)
C18_MalformedIdIs400 ==
    (response.path = "/api/progress" /\ ~MatchesDownloadId(response.requested))
        => response.code = 400

\* the id has the shape download_<digits>
IsJobId(s) ==
    /\ Len(s) > 9
    /\ SubSeq(s, 1, 9) = <<"d","o","w","n","l","o","a","d","_">>
    /\ \A i \in 10..Len(s) : s[i] \in Range(DigitChars)

\* C19: a status poll is read-only: it leaves the registry and the history as they
\* are for every id; for a well-formed id that is no key of the registry it
\* answers 404, for one that is a key it answers with the stored record.
C19_PollIsReadOnly ==
    [][(requests' = requests + 1 /\ response'.path = "/api/progress") =>
          /\ UNCHANGED <<download_progress, download_history>>
          /\ IsJobId(response'.requested) =>
                 IF response'.requested \in DOMAIN download_progress
                 THEN /\ response'.code = 200
                      /\ response'.body = download_progress[response'.requested]
                 ELSE response'.code = 404]_vars

\* a poll was answered with the record of a job that is downloading
C19_Witness ==
    /\ response.path = "/api/progress"
    /\ IsJobId(response.requested)
    /\ response.code = 200
    /\ response.body.status = "downloading"
    /\ response.body = download_progress[response.requested]

\* C23: every failure response of the HTTP surface (status 400, 404 or 500) carries
\* a suggestion field.
\* (Refuted: the responses to an invalid quality, an invalid format, a missing
\* field, an invalid or unknown job id and an internal error hold an error field
\* only.)
C23_FailureCarriesSuggestion ==
    response.code \in {400, 404, 500} => "suggestion" \in DOMAIN response

\* the text stored for a failure category; the generic one is the message itself
LabelOf(category, message) ==
    CASE category = "drm" ->
           <<"D","R","M","-","p","r","o","t","e","c","t","e","d"," ","c","o","n","t","e","n","t"," ","c","a","n","n","o","t"," ","b","e"," ","d","o","w","n","l","o","a","d","e","d","."," ","U","s","e"," ","o","f","f","i","c","i","a","l"," ","a","p","p"," ","(","N","e","t","f","l","i","x",","," ","D","i","s","n","e","y","+",","," ","e","t","c",".",")">>
      [] category = "auth" ->
           <<"L","o","g","i","n"," ","r","e","q","u","i","r","e","d","."," ","E","x","p","o","r","t"," ","c","o","o","k","i","e","s"," ","f","r","o","m"," ","b","r","o","w","s","e","r","."," ","S","e","e"," ","C","O","O","K","I","E","_","G","U","I","D","E",".","m","d">>
      [] category = "unsupported" ->
           <<"S","i","t","e"," ","n","o","t"," ","s","u","p","p","o","r","t","e","d"," ","o","r"," ","o","u","t","d","a","t","e","d","."," ","U","p","d","a","t","e"," ","y","t","-","d","l","p",":"," ","p","i","p"," ","i","n","s","t","a","l","l"," ","-","-","u","p","g","r","a","d","e"," ","y","t","-","d","l","p">>
      [] category = "notfound" ->
           <<"V","i","d","e","o"," ","n","o","t"," ","f","o","u","n","d"," ","(","4","0","4",")","."," ","V","i","d","e","o"," ","m","a","y"," ","b","e"," ","d","e","l","e","t","e","d"," ","o","r"," ","U","R","L"," ","i","n","c","o","r","r","e","c","t",".">>
      [] category = "extraction" ->
           <<"E","x","t","r","a","c","t","i","o","n"," ","f","a","i","l","e","d","."," ","U","p","d","a","t","e"," ","y","t","-","d","l","p",":"," ","p","i","p"," ","i","n","s","t","a","l","l"," ","-","-","u","p","g","r","a","d","e"," ","y","t","-","d","l","p">>
      [] category = "bot" ->
           <<"C","l","o","u","d","f","l","a","r","e"," ","p","r","o","t","e","c","t","e","d","."," ","I","n","s","t","a","l","l",":"," ","p","i","p"," ","i","n","s","t","a","l","l"," ","c","u","r","l","-","c","f","f","i",","," ","t","h","e","n"," ","r","e","s","t","a","r","t">>
      [] category = "generic" -> message

\* C24: the failure classification of download_video is first-match-wins over the
\* rules DRM, authentication, unsupported site, not found (404), extraction
\* failure, bot protection, generic: a message matching several rules gets the
\* label of the earliest, "DRM protection detected" is DRM, "HTTP Error 404: Not
\* Found" is not-found, and a message matching no rule is stored as it is.
C24_FirstMatchingRuleWins ==
    (call.fn = "except" /\ call.done) =>
        \A pair \in ClassifiedMessages :
            call.arg = pair[1] => call.result = LabelOf(pair[2], pair[1])

\* a message matching the unsupported-site and the 404 rule was labelled by the
\* earlier of the two
C24_Witness ==
    /\ call.fn = "except" /\ call.done
    /\ call.arg = <<"U","n","s","u","p","p","o","r","t","e","d"," ","U","R","L",":"," ","H","T","T","P"," ","E","r","r","o","r"," ","4","0","4">>
    /\ call.result = LabelOf("unsupported", call.arg)

(***************************************************************************)
(* The cleanup of DOWNLOAD_FOLDER: cleanup_old_downloads and               *)
(* schedule_cleanup (app.py), with what else happens to the folder while   *)
(* a tick runs.  A tick is the run of cleanup_old_downloads; its steps are *)
(* its calls into the file system.  The sweeper record keeps the locals of *)
(* the tick and what the tick prints: the files it cleaned up (removed),   *)
(* the files it failed to delete (failed), a cleanup error (aborted).      *)
(***************************************************************************)
\* the age in seconds above which a file is deleted
CleanupAge == 30

\* the seconds the Timer waits before the next tick
CleanupPeriod == 30

\* seconds as milliseconds of the clock
Millis(seconds) == seconds * 1000

\* the instants at which the clock is read
Instants == {0, 1, Millis(CleanupAge), Millis(CleanupAge) + 1, 2 * Millis(CleanupAge) + 1}

\* the names in the folder
FileNames == {<<"a",".","m","p","4">>, <<"b",".","m","p","4">>}

\* dict without the key
Without(dict, key) == [k \in DOMAIN dict \ {key} |-> dict[k]]

\* os.path.isfile(filepath)
IsFile(name) == name \in DOMAIN files /\ files[name].kind = "file"

\* a file counted old from the threshold on
IsOldInclusive(file_age) == file_age >= Millis(CleanupAge)

\* file_age > 30, file_age in milliseconds
IsOld(file_age) == file_age > Millis(CleanupAge)

SweeperUnchanged ==
    UNCHANGED <<download_progress, download_history, threads, events, requests, response, call>>

\* time passes
Elapse ==
    /\ \E t \in Instants : t > now /\ now' = t
    /\ UNCHANGED <<files, sweeper>>
    /\ SweeperUnchanged

\* the collaborator (or anyone else) writes a file into the folder, new or again
WriteFile(name) ==
    /\ ~(name \in DOMAIN files /\ files[name].kind = "dir")
    /\ files' = Put(files, name, [kind |-> "file", mtime |-> now])
    /\ UNCHANGED <<now, sweeper>>
    /\ SweeperUnchanged

\* a directory appears in the folder
MakeDir(name) ==
    /\ name \notin DOMAIN files
    /\ files' = Put(files, name, [kind |-> "dir", mtime |-> now])
    /\ UNCHANGED <<now, sweeper>>
    /\ SweeperUnchanged

\* a file leaves the folder without the sweeper: the collaborator renames or
\* deletes its partial files
VanishFile(name) ==
    /\ IsFile(name)
    /\ files' = Without(files, name)
    /\ UNCHANGED <<now, sweeper>>
    /\ SweeperUnchanged

\* a tick begins: current_time = time.time(), then os.listdir(DOWNLOAD_FOLDER)
BeginTick(timers) ==
    sweeper' = [pc |-> "loop", current_time |-> now, todo |-> DOMAIN files,
                filename |-> <<>>, file_age |-> EmptyDict, removed |-> {}, failed |-> {},
                aborted |-> FALSE, timers |-> timers, due |-> sweeper.due]

\* main: schedule_cleanup()
ScheduleCleanup ==
    /\ sweeper.pc = "off"
    /\ BeginTick(0)
    /\ UNCHANGED <<now, files>>
    /\ SweeperUnchanged

\* the Timer expires and calls schedule_cleanup, not before its time
TimerFires ==
    /\ sweeper.pc = "waiting"
    /\ now >= sweeper.due
    /\ BeginTick(sweeper.timers - 1)
    /\ UNCHANGED <<now, files>>
    /\ SweeperUnchanged

\* for filename in os.listdir(...): if os.path.isfile(filepath); the order of
\* the listing is arbitrary
NextFile ==
    /\ sweeper.pc = "loop"
    /\ \E name \in sweeper.todo :
           sweeper' = [sweeper EXCEPT !.todo = @ \ {name},
                                      !.filename = name,
                                      !.pc = IF IsFile(name) THEN "getmtime" ELSE "loop"]
    /\ UNCHANGED <<now, files>>
    /\ SweeperUnchanged

\* file_age = current_time - os.path.getmtime(filepath); if file_age > 30.
\* getmtime raises when the file is gone: the outer except ends the tick
GetMtime ==
    /\ sweeper.pc = "getmtime"
    /\ LET name == sweeper.filename
       IN  IF name \notin DOMAIN files
           THEN sweeper' = [sweeper EXCEPT !.pc = "arm", !.aborted = TRUE]
           ELSE LET file_age == sweeper.current_time - files[name].mtime
                IN  sweeper' = [sweeper EXCEPT
                                   !.file_age = Put(@, name, file_age),
                                   !.pc = IF IsOld(file_age) THEN "remove" ELSE "loop"]
    /\ UNCHANGED <<now, files>>
    /\ SweeperUnchanged

\* a removal that also drops the records naming the file
RemoveFileAndRecord ==
    /\ sweeper.pc = "remove"
    /\ IsFile(sweeper.filename)
    /\ files' = Without(files, sweeper.filename)
    /\ sweeper' = [sweeper EXCEPT !.removed = @ \cup {sweeper.filename}, !.pc = "loop"]
    /\ download_progress' =
           [id \in {k \in DOMAIN download_progress :
                       Get(download_progress[k], "filename", <<>>) # sweeper.filename}
               |-> download_progress[id]]
    /\ UNCHANGED <<now, download_history, threads, events, requests, response, call>>

\* os.remove(filepath) returns: the file is gone and counted
RemoveFile ==
    /\ sweeper.pc = "remove"
    /\ IsFile(sweeper.filename)
    /\ files' = Without(files, sweeper.filename)
    /\ sweeper' = [sweeper EXCEPT !.removed = @ \cup {sweeper.filename}, !.pc = "loop"]
    /\ UNCHANGED now
    /\ SweeperUnchanged

\* os.remove(filepath) raises (gone, in use, not permitted, a directory): the
\* inner except prints the failure and the loop goes on
RemoveFails ==
    /\ sweeper.pc = "remove"
    /\ sweeper' = [sweeper EXCEPT !.failed = @ \cup {sweeper.filename}, !.pc = "loop"]
    /\ UNCHANGED <<now, files>>
    /\ SweeperUnchanged

\* the listing is exhausted: cleanup_old_downloads returns
EndTick ==
    /\ sweeper.pc = "loop"
    /\ sweeper.todo = {}
    /\ sweeper' = [sweeper EXCEPT !.pc = "arm"]
    /\ UNCHANGED <<now, files>>
    /\ SweeperUnchanged

\* the next Timer armed only by a tick that ran to the end of its listing
ArmTimerUnlessAborted ==
    /\ sweeper.pc = "arm"
    /\ ~sweeper.aborted
    /\ sweeper' = [sweeper EXCEPT !.pc = "waiting", !.timers = @ + 1,
                                   !.due = now + Millis(CleanupPeriod)]
    /\ UNCHANGED <<now, files>>
    /\ SweeperUnchanged

\* Timer(30, schedule_cleanup).start()
ArmTimer ==
    /\ sweeper.pc = "arm"
    /\ sweeper' = [sweeper EXCEPT !.pc = "waiting", !.timers = @ + 1,
                                   !.due = now + Millis(CleanupPeriod)]
    /\ UNCHANGED <<now, files>>
    /\ SweeperUnchanged

SweeperNext ==
    \/ Elapse
    \/ \E name \in FileNames : WriteFile(name)
    \/ \E name \in FileNames : MakeDir(name)
    \/ \E name \in FileNames : VanishFile(name)
    \/ ScheduleCleanup
    \/ TimerFires
    \/ NextFile
    \/ GetMtime
    \/ RemoveFile
    \/ RemoveFails
    \/ EndTick
    \/ ArmTimer

\* the record and the history entry of a job that has completed with the file a.mp4
FinishedId == NewDownloadId(0)

FinishedRecord ==
    [id |-> FinishedId, url |-> UrlA, status |-> "completed", progress |-> 100,
     quality |-> <<"b","e","s","t">>, format |-> <<"v","i","d","e","o">>, started_at |-> 0,
     title |-> <<"C","l","i","p">>, thumbnail |-> <<>>, duration |-> 9, uploader |-> <<"U","n","k","n","o","w","n">>,
     filename |-> <<"a",".","m","p","4">>, completed_at |-> 0]

FinishedEntry ==
    [id |-> FinishedId, url |-> UrlA, title |-> <<"C","l","i","p">>, quality |-> <<"b","e","s","t">>,
     format |-> <<"v","i","d","e","o">>, completed_at |-> 0, filename |-> <<"a",".","m","p","4">>]

\* the cleanup thread is started with no job yet or with a completed one
SweeperInit ==
    /\ now = 0
    /\ \/ download_progress = EmptyDict /\ download_history = <<>>
       \/ /\ download_progress = Put(EmptyDict, FinishedId, FinishedRecord)
          /\ download_history = <<FinishedEntry>>
    /\ threads = <<>>
    /\ events = 0
    /\ requests = 0
    /\ response = NoResponse
    /\ call = NoCall
    /\ files = EmptyDict
    /\ sweeper = SweeperOff

\* the folder, the clock and the cleanup thread
SweeperSpec == SweeperInit /\ [][SweeperNext]_vars

\* a tick has run to its end (the next Timer is not armed yet)
TickOver == sweeper.pc = "arm"

C21_TickSurvivesFileFailure ==
    TickOver =>
        /\ \A name \in sweeper.todo :
               ~(IsFile(name) /\ sweeper.current_time - files[name].mtime > 30 * 1000)
        /\ \A name \in DOMAIN sweeper.file_age :
               sweeper.file_age[name] > 30 * 1000
                   => name \in sweeper.removed \cup sweeper.failed

\* a step of the cleanup thread
IsSweeperStep == sweeper' # sweeper

\* C22: a tick of the sweeper changes neither the registry nor the history: every
\* job record and every history entry is the same before and after each of its
\* steps, also when the tick removes the file a completed record names.
C22_TickLeavesRegistryAlone ==
    [][IsSweeperStep => UNCHANGED <<download_progress, download_history>>]_vars

\* a tick has removed the file named by a record that still shows completed
C22_Witness ==
    /\ TickOver
    /\ <<"a",".","m","p","4">> \in sweeper.removed
    /\ <<"a",".","m","p","4">> \notin DOMAIN files
    /\ FinishedId \in DOMAIN download_progress
    /\ download_progress[FinishedId].status = "completed"
    /\ download_progress[FinishedId].filename = <<"a",".","m","p","4">>
    /\ download_history = <<FinishedEntry>>

\* the record and the thread of a job whose first stream a.mp4 the collaborator has
\* finished (progress_hook was called with status finished) and whose
\* ydl.download has not returned yet: the second stream and the merge are ahead
InFlightRecord ==
    [id |-> FinishedId, url |-> UrlA, status |-> "processing", progress |-> 100,
     quality |-> <<"b","e","s","t">>, format |-> <<"v","i","d","e","o">>, started_at |-> 0,
     title |-> <<"C","l","i","p">>, thumbnail |-> <<>>, duration |-> 9, uploader |-> <<"U","n","k","n","o","w","n">>,
     filename |-> <<"a",".","m","p","4">>]

InFlightThread == [NewThread(FinishedId, UrlA, <<"b","e","s","t">>, <<"v","i","d","e","o">>) EXCEPT !.pc = "download"]

\* the cleanup thread runs while that job is in flight
InFlightInit ==
    /\ now = 0
    /\ download_progress = Put(EmptyDict, FinishedId, InFlightRecord)
    /\ download_history = <<>>
    /\ threads = <<InFlightThread>>
    /\ events = 0
    /\ requests = 0
    /\ response = NoResponse
    /\ call = NoCall
    /\ files = EmptyDict
    /\ sweeper = SweeperOff

InFlightSpec == InFlightInit /\ [][SweeperNext]_vars

\* the names of the files the records of jobs in downloading or processing hold
InFlightFiles ==
    {download_progress[id].filename :
        id \in {k \in DOMAIN download_progress :
                   /\ download_progress[k].status \in {"downloading", "processing"}
                   /\ "filename" \in DOMAIN download_progress[k]}}

\* C32: the sweeper never removes an output file that belongs to a job whose
\* task has not reached a terminal status: a file the collaborator has written
\* for a job still in downloading or processing survives every tick.
C32_InFlightFileSurvivesTick ==
    [][IsSweeperStep => \A name \in InFlightFiles : IsFile(name) => IsFile(name)']_vars

\* the Timer expires and os.listdir(DOWNLOAD_FOLDER) raises (the folder is gone or
\* unreadable): the outer except ends the tick before any file is looked at
ListingFails ==
    /\ sweeper.pc = "waiting"
    /\ now >= sweeper.due
    /\ sweeper' = [pc |-> "arm", current_time |-> now, todo |-> {},
                   filename |-> <<>>, file_age |-> EmptyDict, removed |-> {}, failed |-> {},
                   aborted |-> TRUE, timers |-> sweeper.timers - 1, due |-> sweeper.due]
    /\ UNCHANGED <<now, files>>
    /\ SweeperUnchanged

\* a step of cleanup_old_downloads or the arming of the next Timer
TickStep == NextFile \/ GetMtime \/ RemoveFile \/ RemoveFails \/ EndTick \/ ArmTimer

\* the expiry of the Timer
TimerExpiry == TimerFires \/ ListingFails

TickNext == SweeperNext \/ ListingFails

\* the cleanup thread and the Timer thread are scheduled: a tick that can take a
\* step takes one, and an expired Timer calls schedule_cleanup
TickSpec ==
    SweeperInit /\ [][TickNext]_vars /\ WF_vars(TickStep) /\ WF_vars(TimerExpiry)

\* a tick is running or has returned with the next Timer not armed yet
TickRunning == sweeper.pc \in {"loop", "getmtime", "remove", "arm"}

\* C33: once schedule_cleanup has been invoked, ticks recur: every tick, whether
\* it removed files, removed nothing or hit a listing or per-file error, arms
\* exactly one Timer for the next tick, so exactly one tick is running or pending
\* at any time, and an expired Timer starts the next tick whatever the jobs do.
C33_TicksRecur ==
    /\ [](sweeper.pc # "off" => sweeper.timers = (IF TickRunning THEN 0 ELSE 1))
    /\ (TickRunning ~> sweeper.pc = "waiting")
    /\ ((sweeper.pc = "waiting" /\ now >= sweeper.due) ~> TickRunning)

\* a later tick was ended by an error and has armed the one Timer of the next tick
C33_Witness ==
    /\ sweeper.pc = "waiting"
    /\ sweeper.aborted
    /\ sweeper.timers = 1
    /\ sweeper.current_time >= Millis(CleanupPeriod)
    /\ sweeper.due = sweeper.current_time + Millis(CleanupPeriod)

(***************************************************************************)
(* GET /api/history: get_history (app.py), with the tasks that append to   *)
(* the history.  The server has already completed some jobs: the k-th of   *)
(* them was submitted at millisecond k - 1, and the clock stands at the    *)
(* number of them.                                                         *)
(***************************************************************************)
\* the entries get_history returns at most
HistoryLimit == 50

\* list[:n]
FirstN(list, n) == IF Len(list) <= n THEN list ELSE SubSeq(list, 1, n)

\* list[-n:]
LastN(list, n) == IF Len(list) <= n THEN list ELSE SubSeq(list, Len(list) - n + 1, Len(list))

\* the numbers of jobs completed before
EarlierCounts == {0, HistoryLimit - 1, HistoryLimit + 1}

EarlierId(k) == NewDownloadId(k - 1)

\* the record and the history entry of the k-th of them
EarlierRecord(k) ==
    [FinishedRecord EXCEPT !.id = EarlierId(k), !.started_at = k - 1, !.completed_at = k - 1]

EarlierEntry(k) == [FinishedEntry EXCEPT !.id = EarlierId(k), !.completed_at = k - 1]

HistoryInit ==
    /\ \E n \in EarlierCounts :
          /\ now = n
          /\ download_progress =
                [id \in {EarlierId(k) : k \in 1..n} |->
                    EarlierRecord(CHOOSE k \in 1..n : EarlierId(k) = id)]
          /\ download_history = <<>> \o [k \in 1..n |-> EarlierEntry(k)]
    /\ threads = <<>>
    /\ events = 0
    /\ requests = 0
    /\ response = NoResponse
    /\ call = NoCall
    /\ files = EmptyDict
    /\ sweeper = SweeperOff

\* the clock advances once
HistoryClockTick ==
    /\ now \in EarlierCounts
    /\ now' = now + 1
    /\ UNCHANGED <<download_progress, download_history, threads, events, requests, response,
                   call, files, sweeper>>

\* GET /api/history
GetHistory ==
    /\ requests < MaxRequests
    /\ requests' = requests + 1
    /\ response' = [path |-> "/api/history", code |-> 200,
                    body |-> LastN(download_history, HistoryLimit)]
    /\ UNCHANGED <<now, download_progress, download_history, threads, events, call, files,
                   sweeper>>

\* a step of thread t when the collaborator makes no callback
QuietTaskStep(t) ==
    \/ Store(t)
    \/ TaskStart(t)
    \/ \E info \in Infos : ProbeReturn(t, info)
    \/ \E msg \in Messages : CollaboratorRaise(t, msg)
    \/ Except(t)
    \/ DownloadReturn(t)
    \/ AppendHistory(t)

HistoryNext ==
    \/ \E sub \in LiveSubmissions : StartDownload(sub)
    \/ GetHistory
    \/ HistoryClockTick
    \/ \E t \in 1..Len(threads) : QuietTaskStep(t)

\* submissions, their tasks and readers of the history
HistorySpec == HistoryInit /\ [][HistoryNext]_vars

\* list a is the beginning of list b
IsPrefix(a, b) == Len(a) <= Len(b) /\ SubSeq(b, 1, Len(a)) = a

\* C25: GET /api/history returns, in insertion order, exactly the last min(50, n)
\* of the n entries appended so far and leaves the history as it is; the history
\* only grows at its end, so each of its states is a prefix of every later one.
C25_HistoryIsLastFifty ==
    [][/\ IsPrefix(download_history, download_history')
       /\ (requests' = requests + 1 /\ response'.path = "/api/history") =>
             LET n == Len(download_history)
                 m == IF n < 50 THEN n ELSE 50
             IN  /\ download_history' = download_history
                 /\ Len(response'.body) = m
                 /\ \A j \in 1..m : response'.body[j] = download_history[n - m + j]]_vars

\* the history was read when it held 51 entries, the last of a job just completed
C25_Witness ==
    /\ response.path = "/api/history"
    /\ Len(download_history) = HistoryLimit + 2
    /\ Len(response.body) = HistoryLimit
    /\ response.body[1] = download_history[3]
    /\ response.body[HistoryLimit].id = NewDownloadId(HistoryLimit + 1)

\* ---------------------------------------------------------------------------
\* The job record over its life
\* ---------------------------------------------------------------------------

\* the keys start_download writes once and no later write names
IdentityFields == {"id", "url", "quality", "format", "started_at"}

\* C26: a job record, once created, is never removed, its id, url, quality,
\* format and started_at never change, and the registry's keys only grow.
C26_RecordIdentityIsStable ==
    [][\A id \in DOMAIN download_progress :
          /\ id \in DOMAIN download_progress'
          /\ \A field \in IdentityFields :
                download_progress'[id][field] = download_progress[id][field]]_vars

\* C26 without the identity fields: no key of the registry is ever removed
C26_KeysOnlyGrow ==
    [][DOMAIN download_progress \subseteq DOMAIN download_progress']_vars

\* the keys download_video stores from the probe's result
ProbedFields == {"title", "thumbnail", "duration", "uploader"}

\* the statuses a record takes once ydl.download was called
TransferStatuses == {"downloading", "processing", "completed"}

\* C27: the metadata probe precedes the transfer, so a record whose status is
\* downloading, processing or completed always holds title, thumbnail,
\* duration and uploader.
C27_ProbePrecedesTransfer ==
    \A id \in DOMAIN download_progress :
        download_progress[id].status \in TransferStatuses
            => ProbedFields \subseteq DOMAIN download_progress[id]

\* the filenames held by the registry's records and by the history's entries
StoredFilenames ==
    {download_progress[id].filename :
        id \in {k \in DOMAIN download_progress : "filename" \in DOMAIN download_progress[k]}}
    \cup {download_history[i].filename : i \in 1..Len(download_history)}

\* C28: the filename stored in a record or in a history entry never contains a
\* directory component: it is the final segment of the path the collaborator
\* reported (or the entry's default, the empty string).
C28_StoredFilenameIsFinalSegment ==
    \A name \in StoredFilenames :
        /\ "/" \notin Range(name)
        /\ \/ name = <<>>
           \/ \E d \in HookEvents :
                LET full_path == Get(d, "filename", <<"U","n","k","n","o","w","n">>)
                IN  /\ Len(name) <= Len(full_path)
                    /\ SubSeq(full_path, Len(full_path) - Len(name) + 1, Len(full_path)) = name
                    /\ (Len(name) < Len(full_path) => full_path[Len(full_path) - Len(name)] = "/")

\* a finished job whose record and history entry hold a.mp4 for the reported /srv/dl/a.mp4
C28_Witness ==
    /\ Len(download_history) > 0
    /\ download_history[1].filename = <<"a",".","m","p","4">>
    /\ \E id \in DOMAIN download_progress :
          /\ download_progress[id].status = "completed"
          /\ "filename" \in DOMAIN download_progress[id]
          /\ download_progress[id].filename = <<"a",".","m","p","4">>

\* thread t has taken a step of download_video (its callbacks included)
ThreadStepped(t) == Len(threads') = Len(threads) /\ threads'[t] # threads[t]

\* C31: jobs are independent: a step of the background task of job A (a status
\* change, a progress callback, a logger error callback, the exception handler)
\* changes only the registry record keyed by A's id and, on success, appends A's
\* entry to the history; the record of every other job id is unchanged by it.
C31_TaskWritesOwnRecordOnly ==
    [][\A t \in 1..Len(threads) :
          ThreadStepped(t) =>
              /\ DOMAIN download_progress' = DOMAIN download_progress
              /\ \A id \in DOMAIN download_progress \ {threads[t].id} :
                    download_progress'[id] = download_progress[id]
              /\ \/ download_history' = download_history
                 \/ /\ Len(download_history') = Len(download_history) + 1
                    /\ SubSeq(download_history', 1, Len(download_history)) = download_history
                    /\ download_history'[Len(download_history')].id = threads[t].id
                    /\ threads[t].pc = "history"]_vars

\* two jobs of different ids: the task of one has completed and appended its entry
\* while the record of the other is still as the submission left it
C31_Witness ==
    /\ Len(threads) = 2
    /\ threads[1].id # threads[2].id
    /\ download_progress[threads[1].id].status = "completed"
    /\ Len(download_history) = 1
    /\ download_history[1].id = threads[1].id
    /\ download_progress[threads[2].id] =
          QueuedRecord(threads[2].id, threads[2].url, threads[2].quality, threads[2].format, 1)

\* C34: in every reachable state a job record carries an `error` field only if
\* its status is `error`: no record with status downloading, processing or
\* completed has an error message, whatever the collaborator's events and its
\* logger error callbacks.
C34_ErrorFieldOnlyInError ==
    \A id \in DOMAIN download_progress :
        "error" \in DOMAIN download_progress[id] => download_progress[id].status = "error"

(***************************************************************************)
(* GET /api/file/<path:filename>: download_file (app.py), over the folder  *)
(* the sweeper's model keeps in `files`.                                   *)
(***************************************************************************)
\* the values of the route's filename parameter: a path of one or more segments
RequestedFiles ==
    {<<"a",".","m","p","4">>, <<"b",".","m","p","4">>, <<"c",".","m","p","4">>, <<"x","/","a",".","m","p","4">>, <<".",".","/",".",".","/","e","t","c","/","b",".","m","p","4">>, <<".",".">>, <<"x","/",".",".">>, <<"a",".","m","p","4","/">>}

\* os.path.exists(os.path.join(DOWNLOAD_FOLDER, filename)): the empty name is the
\* folder itself and ".." its parent
PathExists(filename) == filename \in {<<>>, <<".",".">>} \/ filename \in DOMAIN files

\* str(e) of the error open() raises on a directory
IsADirectory == "[Errno 21] Is a directory"

\* GET /api/file/<requested>
DownloadFile(requested) ==
    LET filename == Basename(requested)
    IN  /\ requests < MaxRequests
        /\ requests' = requests + 1
        /\ response' =
              IF ~PathExists(filename)
              THEN [path |-> "/api/file", requested |-> requested,
                    code |-> 404, error |-> "File not found"]
              ELSE IF IsFile(filename)
              THEN [path |-> "/api/file", requested |-> requested,
                    code |-> 200, sent |-> filename, download_name |-> filename]
              ELSE [path |-> "/api/file", requested |-> requested,
                    code |-> 500, error |-> IsADirectory]
        /\ UNCHANGED <<now, download_progress, download_history, threads, events, call, files, sweeper>>

FileNext ==
    \/ Elapse
    \/ \E name \in FileNames : WriteFile(name)
    \/ \E name \in FileNames : MakeDir(name)
    \/ \E name \in FileNames : VanishFile(name)
    \/ \E requested \in RequestedFiles : DownloadFile(requested)

FileSpec == Init /\ [][FileNext]_vars

\* C29: GET /api/file/{filename} only ever reads a regular file that is a
\* direct child of the output directory, the one named by the final segment of
\* the requested path, and answers 404 whenever the request does not name such
\* an existing file, a final segment of `..` or an empty one included.
C29_ServesFolderFilesElse404 ==
    [][(requests' = requests + 1 /\ response'.path = "/api/file") =>
          LET segment == Basename(response'.requested)
          IN  IF segment \in DOMAIN files /\ files[segment].kind = "file"
              THEN response'.code = 200 /\ response'.sent = segment
              ELSE response'.code = 404]_vars

\* C29 without the 404: whatever is sent is a regular file of the folder, the
\* one named by the final segment, and nothing is sent unless there is one
C29_SendsOnlyFolderFiles ==
    [][(requests' = requests + 1 /\ response'.path = "/api/file") =>
          LET segment == Basename(response'.requested)
          IN  IF segment \in DOMAIN files /\ files[segment].kind = "file"
              THEN response'.code = 200 /\ response'.sent = segment
              ELSE response'.code \in {404, 500} /\ "sent" \notin DOMAIN response']_vars

\* get_video_info has answered 200 for the info dict call.arg
InfoReturned == call.fn = "get_video_info" /\ call.done

\* the heights present in the formats list the collaborator reported
HeightsPresent(info) ==
    IF "formats" \in DOMAIN info
    THEN {info.formats[i].height :
             i \in {k \in 1..Len(info.formats) : "height" \in DOMAIN info.formats[k]}}
    ELSE {}

\* C30: the formats list of POST /api/info has at most 10 entries of pairwise
\* distinct heights, sorted by height descending; it consists of the greatest
\* distinct heights present in the collaborator's formats list, each with the ext
\* of the first format reported at that height; the description returned has at
\* most 200 characters.
C30_FormatsAreTopTenHeights ==
    InfoReturned =>
        LET formats == call.result.formats
            present == HeightsPresent(call.arg)
            listed == {formats[i].height : i \in 1..Len(formats)}
        IN  /\ Len(formats) <= 10
            /\ \A i, j \in 1..Len(formats) : i < j => formats[i].height > formats[j].height
            /\ listed \subseteq present
            /\ Cardinality(listed) = (IF Cardinality(present) < 10 THEN Cardinality(present) ELSE 10)
            /\ \A h \in present \ listed : \A g \in listed : g > h
            /\ \A i \in 1..Len(formats) :
                  LET reported == call.arg.formats
                      first == CHOOSE k \in 1..Len(reported) :
                                  /\ "height" \in DOMAIN reported[k]
                                  /\ reported[k].height = formats[i].height
                                  /\ \A m \in 1..(k - 1) :
                                        "height" \in DOMAIN reported[m]
                                            => reported[m].height # formats[i].height
                  IN  "ext" \in DOMAIN reported[first] => formats[i].ext = reported[first].ext
            /\ Len(call.result.description) <= 200

\* twelve heights were reported, each twice, and a description of 201 characters:
\* ten entries from 4320 down to 240 are returned, 2160 with the ext it was
\* first reported with, and 200 characters of the description
C30_Witness ==
    /\ InfoReturned
    /\ "formats" \in DOMAIN call.arg /\ call.arg.formats = ManyFormats
    /\ "description" \in DOMAIN call.arg /\ Len(call.arg.description) = 201
    /\ Len(call.result.formats) = 10
    /\ call.result.formats[1].height = 4320
    /\ call.result.formats[3] = [quality |-> <<"2","1","6","0","p">>, height |-> 2160, ext |-> <<"m","p","4">>]
    /\ call.result.formats[10].height = 240
    /\ Len(call.result.description) = 200

\* the failure category download_video records for the message: the text it stores,
\* the same for every message of a category; the generic category stores the message
RecordedCategory(error_msg, stored) == IF stored = error_msg THEN <<"g","e","n","e","r","i","c">> ELSE stored

\* the failure category the info endpoint reports for the message: the error text of
\* its response, the same for every message of a category; the generic category
\* returns the message
ReportedCategory(error_msg, reported) ==
    IF reported.error = error_msg THEN <<"g","e","n","e","r","i","c">> ELSE reported.error

\* both classifications of two messages have returned
BothClassified == call.fn = "classify" /\ call.done

\* C35: for every collaborator failure message, the failure category reported by
\* the info endpoint (its inner DRM/login short-circuit and its outer handler
\* taken together) equals the category download_video records for the same
\* message: two messages are of one category for the info endpoint exactly when
\* they are of one category for download_video.
C35_SameCategoryInBoth ==
    BothClassified =>
        LET first == call.arg[1]
            second == call.arg[2]
        IN  (RecordedCategory(first, call.result.recorded[1])
                = RecordedCategory(second, call.result.recorded[2]))
            <=> (ReportedCategory(first, call.result.reported[1])
                    = ReportedCategory(second, call.result.reported[2]))

\* C35 in one direction: the category the info endpoint reports determines the
\* category download_video records
C35_ReportedRefinesRecorded ==
    BothClassified =>
        LET first == call.arg[1]
            second == call.arg[2]
        IN  (ReportedCategory(first, call.result.reported[1])
                = ReportedCategory(second, call.result.reported[2]))
            => (RecordedCategory(first, call.result.recorded[1])
                   = RecordedCategory(second, call.result.recorded[2]))

\* download_video has built its options for the quality and format of call.arg
SettingsBuilt == call.fn = "download_video" /\ call.done

\* C36: for kind audio and every accepted quality, download_video hands the
\* collaborator the selector bestaudio/best together with exactly one
\* post-processing step, which transcodes to mp3 at bitrate 320, whatever the
\* requested quality; no video request carries a transcoding step.
C36_AudioIsMp3At320 ==
    SettingsBuilt =>
        IF call.arg[2] = <<"a","u","d","i","o">>
        THEN /\ call.arg[1] \in allowed_qualities
             /\ call.result.format = <<"b","e","s","t","a","u","d","i","o","/","b","e","s","t">>
             /\ Len(call.result.postprocessors) = 1
             /\ call.result.postprocessors[1] =
                   [key |-> <<"F","F","m","p","e","g","E","x","t","r","a","c","t","A","u","d","i","o">>, preferredcodec |-> <<"m","p","3">>,
                    preferredquality |-> <<"3","2","0">>]
        ELSE /\ call.arg[2] = <<"v","i","d","e","o">>
             /\ "postprocessors" \notin DOMAIN call.result

\* an audio request at quality 720p has got the selector and the mp3 step
C36_Witness ==
    /\ SettingsBuilt
    /\ call.arg = <<<<"7","2","0","p">>, <<"a","u","d","i","o">>>>
    /\ call.result.format = <<"b","e","s","t","a","u","d","i","o","/","b","e","s","t">>
    /\ call.result.postprocessors[1].preferredquality = <<"3","2","0">>
====
